---- MODULE Spec2Model ----
(***************************************************************************)
(* A model of the tunnel-establishment core: the server-entry store and    *)
(* its iterator (psiphon/dataStore.go) and the obfuscator seed-message     *)
(* handshake (package obfuscator), the randomized ClientHello of utls,     *)
(* CustomTLSDial (psiphon/tlsDialer.go), the dial parameters and the       *)
(* persistent stats of the datastore, datastoreMutex, the hot reload of    *)
(* the server's traffic rules and psinet database, and                     *)
(* ClientParameters.Set (common/parameters).                               *)
(*                                                                         *)
(* Spec              : the datastore and the ServerEntryIterator.          *)
(* SpecStore         : the server-entry store under every input.           *)
(* SpecObf           : the obfuscator client/server handshake.             *)
(* SpecHello         : two ClientHello assemblies of one profile and seed. *)
(* SpecDial          : one CustomTLSDial call and its handshake goroutine. *)
(* SpecDialLive      : SpecDial with its select, join and handshake fair.  *)
(* SpecDialParameters: SetDialParameters, GetDialParameters and            *)
(*                     DeleteDialParameters.                               *)
(* SpecStats         : OpenDataStore and the persistent stats.             *)
(* SpecDataStore     : the datastore opened and closed while it is used.   *)
(* SpecAffinity      : server affinity, with failing puts and a stale id.  *)
(* SpecParameters    : ClientParameters.Set.                               *)
(* SpecMutex         : goroutines on datastoreMutex.                       *)
(* SpecReload        : a reload against concurrent readers.                *)
(* SpecTrafficRules  : a TrafficRulesSet reloaded and queried.             *)
(***************************************************************************)
EXTENDS Integers, Sequences, FiniteSets, TLC

VARIABLES
    serverEntries,    \* bucket "serverEntries": ip -> stored data
    keyValues,        \* bucket "keyValues": key -> value
    dialParameters,   \* bucket "dialParameters": key -> stored data
    iterator,         \* the ServerEntryIterator the caller holds
    ret,              \* what the last datastore call was given and returned
    yielded,          \* history: ips returned by Next in the current cycle
    storeTouched,     \* history: serverEntries written since the cycle began
    obf,              \* obfuscator handshake state (SpecObf)
    hello,            \* two ClientHello assemblies of one profile and seed (SpecHello)
    dial,             \* one CustomTLSDial call (SpecDial)
    stats,            \* the persistent stats buckets of the datastore (SpecStats)
    lastSet,          \* history: (ip, network id) -> the dial parameters last set
    mutex,            \* datastoreMutex and the goroutines that take it (SpecMutex)
    rules,            \* a TrafficRulesSet, its reloads and its readers (SpecReload)
    params,           \* a ClientParameters and the last Set call (SpecParameters)
    trafficRules      \* a TrafficRulesSet's content and the last call on it
                      \* (SpecTrafficRules)

vars == <<serverEntries, keyValues, dialParameters, iterator, ret, yielded,
          storeTouched, obf, hello, dial, stats, lastSet, mutex, rules, params,
          trafficRules>>

dsVars == <<serverEntries, keyValues, dialParameters, iterator, ret, yielded,
            storeTouched>>

moreVars == <<mutex, rules, params, trafficRules>>

restVars == <<hello, dial, stats, lastSet, moreVars>>

-----------------------------------------------------------------------------
(* Bounds of the model.                                                    *)

MaxVersion == 2

(* The server ids, in the byte order the bucket cursor walks them.         *)
IPOrder == <<"a", "b", "c">>

IPs == {IPOrder[k] : k \in 1..Len(IPOrder)}

Regions == {"CA", "US"}

(* Each server's region and tactics capability are attributes of the       *)
(* server; the entries offered to the store carry them.                    *)
RegionOf(ip) == IF ip = "b" THEN "US" ELSE "CA"

TacticsOf(ip) == ip # "c"

NetworkIDs == {"n"}

Versions == 0..MaxVersion

-----------------------------------------------------------------------------
(* Stored data.  A bucket is a function whose DOMAIN is the set of keys    *)
(* present; get returns NilData for an absent key.                         *)

NilData ==
    [kind |-> "nil", ip |-> "", ver |-> 0, tag |-> "", region |-> "", tactics |-> FALSE]

CorruptData ==
    [kind |-> "corrupt", ip |-> "", ver |-> 0, tag |-> "", region |-> "", tactics |-> FALSE]

BucketGet(bucket, key) == IF key \in DOMAIN bucket THEN bucket[key] ELSE NilData

BucketPut(bucket, key, value) ==
    [k \in DOMAIN bucket \cup {key} |-> IF k = key THEN value ELSE bucket[k]]

BucketDelete(bucket, key) == [k \in DOMAIN bucket \ {key} |-> bucket[k]]

(* json.Marshal of server entry fields, and json.Unmarshal into a          *)
(* ServerEntry: corrupt data does not parse.                               *)
Marshal(fields) ==
    [kind |-> "json", ip |-> fields.ip, ver |-> fields.ver, tag |-> fields.tag,
     region |-> fields.region, tactics |-> fields.tactics]

MutUnmarshalAcceptsCorrupt(data) == data.kind # "nil"

UnmarshalOK(data) == data.kind = "json"

(* The rest of an entry's content (keys, ports, ...), as one value.        *)
Tags == {"x", "y"}

(* The server entry fields a caller may hand to StoreServerEntry; valid    *)
(* is what protocol.ValidateServerEntryFields finds.                       *)
ServerEntryFields ==
    [ip : IPs, ver : Versions, tag : Tags, valid : BOOLEAN]

FieldsOf(e) ==
    [ip |-> e.ip, ver |-> e.ver, tag |-> e.tag, region |-> RegionOf(e.ip),
     tactics |-> TacticsOf(e.ip)]

AffinityKey == "affinityServerEntryID"

FilterKey == "lastServerEntryFilter"

NoIterator ==
    [kind |-> "none", region |-> "", applyServerAffinity |-> FALSE, serverEntryIDs |-> <<>>,
     serverEntryIndex |-> 0, isTactics |-> FALSE, hasNextTarget |-> FALSE,
     initialRound |-> FALSE, target |-> ""]

NoRet ==
    [op |-> "none", err |-> FALSE, ip |-> "", ver |-> 0, tag |-> "",
     valid |-> FALSE, flag |-> FALSE, region |-> "", replay |-> 0,
     networkID |-> "", target |-> "", entry |-> NilData, dialParams |-> <<>>,
     message |-> ""]

(* datastoreView and datastoreUpdate, dataStore.go 103-133, of a datastore  *)
(* s: the error when the singleton is not set, and when the transaction    *)
(* fails (viewErr, updateErr); a failed transaction changes nothing.       *)
datastoreViewError(s, viewErr) ==
    IF ~s.activeDatastoreDB THEN "database not open"
    ELSE IF viewErr THEN "view failed"
    ELSE ""

MutUpdateWhenNotOpen(s, updateErr) == IF updateErr THEN "update failed" ELSE ""

datastoreUpdateError(s, updateErr) ==
    IF ~s.activeDatastoreDB THEN "database not open"
    ELSE IF updateErr THEN "update failed"
    ELSE ""

(* What a datastore call op returns when its transaction failed with err.  *)
ReturnsError(op, err) == [NoRet EXCEPT !.op = op, !.err = TRUE, !.message = err]

-----------------------------------------------------------------------------
(* StoreServerEntry, dataStore.go 143-209.                                 *)

existingConfigurationVersion(bucket, ip) ==
    LET existingData == BucketGet(bucket, ip)
    IN  IF existingData.kind # "nil" /\ UnmarshalOK(existingData)
        THEN existingData.ver
        ELSE -1

MutShouldUpdateNotStrict(bucket, e, replaceIfExists) ==
    LET existing == existingConfigurationVersion(bucket, e.ip)
        exists == existing > -1
        newer == exists /\ existing <= e.ver
    IN  ~exists \/ replaceIfExists \/ newer

MutShouldUpdateOlder(bucket, e, replaceIfExists) ==
    LET existing == existingConfigurationVersion(bucket, e.ip)
        exists == existing > -1
        newer == exists /\ existing > e.ver
    IN  ~exists \/ replaceIfExists \/ newer

ShouldUpdate(bucket, e, replaceIfExists) ==
    LET existing == existingConfigurationVersion(bucket, e.ip)
        exists == existing > -1
        newer == exists /\ existing < e.ver
    IN  ~exists \/ replaceIfExists \/ newer

StoreServerEntry(e, replaceIfExists) ==
    /\ IF ~e.valid
       THEN /\ ret' = [NoRet EXCEPT !.op = "StoreServerEntry", !.err = TRUE,
                        !.message = "invalid server entry",
                        !.ip = e.ip, !.ver = e.ver, !.tag = e.tag,
                        !.valid = e.valid, !.flag = replaceIfExists]
            /\ UNCHANGED <<serverEntries, storeTouched>>
       ELSE IF datastoreUpdateError(stats, FALSE) # ""
       THEN /\ ret' = [ReturnsError("StoreServerEntry", datastoreUpdateError(stats, FALSE))
                          EXCEPT !.ip = e.ip, !.ver = e.ver, !.tag = e.tag,
                                 !.valid = e.valid, !.flag = replaceIfExists]
            /\ UNCHANGED <<serverEntries, storeTouched>>
       ELSE /\ ret' = [NoRet EXCEPT !.op = "StoreServerEntry", !.err = FALSE,
                        !.ip = e.ip, !.ver = e.ver, !.tag = e.tag,
                        !.valid = e.valid, !.flag = replaceIfExists]
            /\ IF ShouldUpdate(serverEntries, e, replaceIfExists)
               THEN /\ serverEntries' =
                          BucketPut(serverEntries, e.ip, Marshal(FieldsOf(e)))
                    /\ storeTouched' = TRUE
               ELSE UNCHANGED <<serverEntries, storeTouched>>
    /\ UNCHANGED <<keyValues, dialParameters, iterator, yielded, obf, restVars>>

-----------------------------------------------------------------------------
(* Configurations a caller may pass.                                       *)

(* parameters.ReplayCandidateCount: off, or on.                            *)
ReplayCandidateCounts == {0, 1}

TargetRegion == "CA"

TargetProtocols == {"SSH"}

(* config.TargetServerEntry: "" (not configured), an encoding that does    *)
(* not decode, one that decodes to a tunnel-only server, and one that      *)
(* decodes to a server supporting tactics.                                 *)
Targets == {"", "bad", "t", "tt"}

(* The ip a concurrent writer stores while an iterator is in use.          *)
LateIPs == {"c"}

TargetData(target) ==
    [kind |-> "json", ip |-> target, ver |-> 0, tag |-> "x", region |-> TargetRegion,
     tactics |-> (target = "tt")]

(* config.EgressRegion: unconstrained, or a region.                        *)
ConfigRegions == {"", "CA"}

Configs ==
    {c \in [region : ConfigRegions, networkID : NetworkIDs,
            replayCount : ReplayCandidateCounts, target : Targets,
            limitTunnelProtocols : {{}, {"SSH"}, {"MEEK"}}] :
        /\ c.target \in {"", "bad", "tt"} => c.limitTunnelProtocols = {}
        /\ c.target # "" => c.replayCount = 0}

(* PromoteServerEntry, dataStore.go 269-308.                               *)

makeServerEntryFilterValue(config) == config.region

(* Which bucket.put of the transaction fails, if any.                      *)
PutErrors == {"", "affinity", "filter"}

(* The transaction function, lines 270-302: the key-value bucket it leaves *)
(* and the error it returns.                                               *)
MutPromoteAffinityOnly(config, ipAddress, putErr) ==
    IF BucketGet(serverEntries, ipAddress).kind = "nil"
    THEN [keyValues |-> keyValues, err |-> ""]
    ELSE [keyValues |-> BucketPut(keyValues, AffinityKey, ipAddress), err |-> ""]

promoteTransaction(config, ipAddress, putErr) ==
    IF BucketGet(serverEntries, ipAddress).kind = "nil"
    THEN [keyValues |-> keyValues, err |-> ""]
    ELSE IF putErr = "affinity"
    THEN [keyValues |-> keyValues, err |-> "put failed"]
    ELSE IF putErr = "filter"
    THEN [keyValues |-> BucketPut(keyValues, AffinityKey, ipAddress),
          err |-> "put failed"]
    ELSE [keyValues |-> BucketPut(BucketPut(keyValues, AffinityKey, ipAddress),
                                  FilterKey, makeServerEntryFilterValue(config)),
          err |-> ""]

(* datastoreDB.update: the writes of a transaction function that returned  *)
(* an error are rolled back.                                               *)
updateCommit(before, tx) == IF tx.err # "" THEN before ELSE tx.keyValues

PromoteServerEntry(config, ipAddress, putErr) ==
    /\ IF datastoreUpdateError(stats, FALSE) # ""
       THEN /\ ret' = [ReturnsError("PromoteServerEntry",
                                    datastoreUpdateError(stats, FALSE))
                          EXCEPT !.ip = ipAddress, !.region = config.region]
            /\ UNCHANGED keyValues
       ELSE LET tx == promoteTransaction(config, ipAddress, putErr)
            IN  /\ ret' = [(IF tx.err # "" THEN ReturnsError("PromoteServerEntry", tx.err)
                            ELSE [NoRet EXCEPT !.op = "PromoteServerEntry"])
                             EXCEPT !.ip = ipAddress, !.region = config.region]
                /\ keyValues' = updateCommit(keyValues, tx)
    /\ UNCHANGED <<serverEntries, dialParameters, iterator, yielded,
                   storeTouched, obf, restVars>>

(* hasServerEntryFilterChanged, dataStore.go 319-345.                      *)

MutFilterChangedIgnoresNil(config) ==
    /\ FilterKey \in DOMAIN keyValues
    /\ keyValues[FilterKey] # makeServerEntryFilterValue(config)

hasServerEntryFilterChanged(config) ==
    \/ FilterKey \notin DOMAIN keyValues
    \/ keyValues[FilterKey] # makeServerEntryFilterValue(config)

-----------------------------------------------------------------------------
(* Dial parameters, dataStore.go 1288-1338.                                *)

makeDialParametersKey(serverIPAddress, networkID) == serverIPAddress \o networkID

(* A DialParameters record: the TLS profile and the ClientHello seed stand *)
(* for its fields.  NilDialParameters is the nil pointer.                  *)
NilDialParameters == <<>>

DialParameterRecords ==
    {[TLSProfile |-> "Chrome-58", RandomizedTLSProfileSeed |-> <<>>],
     [TLSProfile |-> "Randomized", RandomizedTLSProfileSeed |-> <<7>>]}

DialParamValues == {[TLSProfile |-> "Chrome-58", RandomizedTLSProfileSeed |-> <<>>]}

(* json.Marshal of a DialParameters record: a JSON object, as the list of  *)
(* its members in field order; a nil seed is the JSON null.                *)
MarshalDialParameters(dialParams) ==
    [kind |-> "json",
     members |-> <<<<"TLSProfile",
                     [null |-> FALSE, string |-> dialParams.TLSProfile, bytes |-> <<>>]>>,
                   <<"RandomizedTLSProfileSeed",
                     [null |-> dialParams.RandomizedTLSProfileSeed = <<>>,
                      string |-> "",
                      bytes |-> dialParams.RandomizedTLSProfileSeed]>>>>]

(* The value of the named member of a JSON object.                         *)
Member(data, name) ==
    data.members[CHOOSE i \in 1..Len(data.members) : data.members[i][1] = name][2]

(* json.Unmarshal into a *DialParameters: data that is not JSON fails.     *)
UnmarshalDialParameters(data) ==
    IF data.kind # "json" THEN [err |-> TRUE, dialParams |-> NilDialParameters]
    ELSE [err |-> FALSE,
          dialParams |->
              [TLSProfile |-> Member(data, "TLSProfile").string,
               RandomizedTLSProfileSeed |->
                   IF Member(data, "RandomizedTLSProfileSeed").null THEN <<>>
                   ELSE Member(data, "RandomizedTLSProfileSeed").bytes]]

SetDialParameters(serverIPAddress, networkID, dialParams) ==
    /\ IF datastoreUpdateError(stats, FALSE) # ""
       THEN /\ ret' = ReturnsError("SetDialParameters",
                                   datastoreUpdateError(stats, FALSE))
            /\ UNCHANGED <<dialParameters, lastSet>>
       ELSE /\ dialParameters' =
                  BucketPut(dialParameters,
                            makeDialParametersKey(serverIPAddress, networkID),
                            MarshalDialParameters(dialParams))
            /\ ret' = [NoRet EXCEPT !.op = "SetDialParameters"]
            /\ lastSet' = BucketPut(lastSet, <<serverIPAddress, networkID>>, dialParams)
    /\ UNCHANGED <<serverEntries, keyValues, iterator, yielded, storeTouched, obf,
                   hello, dial, stats, moreVars>>

(* GetDialParameters: nil, nil when the bucket has no value for the key.   *)
GetDialParameters(serverIPAddress, networkID) ==
    /\ LET data == BucketGet(dialParameters,
                             makeDialParametersKey(serverIPAddress, networkID))
           parsed == UnmarshalDialParameters(data)
       IN  IF datastoreViewError(stats, FALSE) # ""
           THEN ret' = [ReturnsError("GetDialParameters",
                                     datastoreViewError(stats, FALSE))
                          EXCEPT !.ip = serverIPAddress, !.networkID = networkID]
           ELSE ret' = [NoRet EXCEPT
                          !.op = "GetDialParameters",
                          !.ip = serverIPAddress,
                          !.networkID = networkID,
                          !.err = data.kind # "nil" /\ parsed.err,
                          !.dialParams = IF data.kind = "nil" THEN NilDialParameters
                                         ELSE parsed.dialParams]
    /\ UNCHANGED <<serverEntries, keyValues, dialParameters, iterator, yielded,
                   storeTouched, obf, restVars>>

DeleteDialParameters(serverIPAddress, networkID) ==
    /\ IF datastoreUpdateError(stats, FALSE) # ""
       THEN /\ ret' = ReturnsError("DeleteDialParameters",
                                   datastoreUpdateError(stats, FALSE))
            /\ UNCHANGED <<dialParameters, lastSet>>
       ELSE /\ dialParameters' =
                  BucketDelete(dialParameters,
                               makeDialParametersKey(serverIPAddress, networkID))
            /\ ret' = [NoRet EXCEPT !.op = "DeleteDialParameters"]
            /\ lastSet' = BucketDelete(lastSet, <<serverIPAddress, networkID>>)
    /\ UNCHANGED <<serverEntries, keyValues, iterator, yielded, storeTouched, obf,
                   hello, dial, stats, moreVars>>

-----------------------------------------------------------------------------
(* ServerEntryIterator.reset, dataStore.go 470-587.  Lists are indexed     *)
(* from 0 as in the source: At(ids, i) is ids[i].                          *)

At(ids, i) == ids[i + 1]

Swap(ids, i, j) ==
    [k \in 1..Len(ids) |->
        IF k = i + 1 THEN ids[j + 1] ELSE IF k = j + 1 THEN ids[i + 1] ELSE ids[k]]

RECURSIVE MutCollectKeysNoSkip(_, _, _)
MutCollectKeysNoSkip(k, affinityID, acc) ==
    IF k > Len(IPOrder) THEN acc
    ELSE IF IPOrder[k] \notin DOMAIN serverEntries
         THEN MutCollectKeysNoSkip(k + 1, affinityID, acc)
    ELSE MutCollectKeysNoSkip(k + 1, affinityID, Append(acc, IPOrder[k]))

RECURSIVE CollectKeys(_, _, _)
(* The cursor loop, lines 518-525: every key of the bucket in cursor       *)
(* order, except the affinity id.                                          *)
CollectKeys(k, affinityID, acc) ==
    IF k > Len(IPOrder) THEN acc
    ELSE IF IPOrder[k] \notin DOMAIN serverEntries THEN CollectKeys(k + 1, affinityID, acc)
    ELSE IF affinityID # "" /\ affinityID = IPOrder[k] THEN CollectKeys(k + 1, affinityID, acc)
    ELSE CollectKeys(k + 1, affinityID, Append(acc, IPOrder[k]))

RECURSIVE Shuffle(_, _, _)
(* The shuffle loop, lines 531-534, entered with loop variable i: the set  *)
(* of lists it can leave, prng.Intn being any value in its range.          *)
Shuffle(ids, shuffleHead, i) ==
    IF ~(i > shuffleHead - 1) THEN {ids}
    ELSE UNION {Shuffle(Swap(ids, i, j), shuffleHead, i - 1) : j \in shuffleHead..i}

HasDialParameters(id, networkID) ==
    makeDialParametersKey(id, networkID) \in DOMAIN dialParameters

RECURSIVE AdvanceI(_, _, _, _)
AdvanceI(ids, i, j, networkID) ==
    IF i < j /\ HasDialParameters(At(ids, i), networkID)
    THEN AdvanceI(ids, i + 1, j, networkID) ELSE i

RECURSIVE RetreatJ(_, _, _, _)
RetreatJ(ids, i, j, networkID) ==
    IF i < j /\ ~HasDialParameters(At(ids, j), networkID)
    THEN RetreatJ(ids, i, j - 1, networkID) ELSE j

MutPartitionNoSwap(ids, i, j, networkID) == ids

RECURSIVE Partition(_, _, _, _)
(* The replay partition, lines 552-574.                                    *)
Partition(ids, i, j, networkID) ==
    LET i2 == AdvanceI(ids, i, j, networkID)
        j2 == RetreatJ(ids, i2, j, networkID)
    IN  IF i2 < j2
        THEN Partition(Swap(ids, i2, j2), i2 + 1, j2 - 1, networkID)
        ELSE ids

MutAffinityEveryRound(isInitialRound, applyServerAffinity) ==
    IF applyServerAffinity /\ AffinityKey \in DOMAIN keyValues
    THEN keyValues[AffinityKey] ELSE ""

(* The affinity id read at lines 506-514 ("" when none applies).           *)
AffinityIDFor(isInitialRound, applyServerAffinity) ==
    IF isInitialRound /\ applyServerAffinity /\ AffinityKey \in DOMAIN keyValues
    THEN keyValues[AffinityKey] ELSE ""

MutShuffleHeadZero(isInitialRound, applyServerAffinity) == 0

ShuffleHeadFor(isInitialRound, applyServerAffinity) ==
    IF AffinityIDFor(isInitialRound, applyServerAffinity) # "" THEN 1 ELSE 0

(* Every list reset(isInitialRound) can build.                             *)
ResetLists(isInitialRound, applyServerAffinity, replayCount, networkID) ==
    LET affinityID == AffinityIDFor(isInitialRound, applyServerAffinity)
        shuffleHead == ShuffleHeadFor(isInitialRound, applyServerAffinity)
        collected == CollectKeys(1, affinityID,
                                 IF affinityID # "" THEN <<affinityID>> ELSE <<>>)
        shuffled == Shuffle(collected, shuffleHead, Len(collected) - 1)
    IN  IF isInitialRound /\ replayCount > 0
        THEN {Partition(ids, shuffleHead, Len(ids) - 1, networkID) : ids \in shuffled}
        ELSE shuffled

-----------------------------------------------------------------------------
(* Constructors, dataStore.go 372-462.                                     *)

TargetError(config, isTactics) ==
    IF config.target = "bad" THEN TRUE
    ELSE IF isTactics THEN ~TargetData(config.target).tactics
    ELSE \/ config.region # "" /\ TargetData(config.target).region # config.region
         \/ /\ config.limitTunnelProtocols # {}
            /\ TargetProtocols \cap config.limitTunnelProtocols = {}

newTargetServerEntryIterator(config, isTactics, op) ==
    IF TargetError(config, isTactics)
    THEN /\ ret' = [NoRet EXCEPT !.op = op, !.err = TRUE, !.region = config.region,
                       !.target = config.target]
         /\ UNCHANGED <<iterator, yielded, storeTouched>>
    ELSE /\ iterator' = [NoIterator EXCEPT !.kind = "target", !.isTactics = isTactics,
                           !.hasNextTarget = TRUE, !.target = config.target]
         /\ ret' = [NoRet EXCEPT !.op = op, !.flag = FALSE, !.region = config.region,
                       !.target = config.target]
         /\ yielded' = <<>>
         /\ storeTouched' = FALSE

NewServerEntryIterator(config) ==
    /\ IF config.target # ""
       THEN newTargetServerEntryIterator(config, FALSE, "NewServerEntryIterator")
       ELSE IF datastoreViewError(stats, FALSE) # ""
       THEN /\ ret' = [ReturnsError("NewServerEntryIterator",
                                    datastoreViewError(stats, FALSE))
                          EXCEPT !.region = config.region,
                                 !.replay = config.replayCount,
                                 !.networkID = config.networkID]
            /\ UNCHANGED <<iterator, yielded, storeTouched>>
       ELSE LET filterChanged == hasServerEntryFilterChanged(config)
                applyServerAffinity == ~filterChanged
            IN  \E ids \in ResetLists(TRUE, applyServerAffinity,
                                      config.replayCount, config.networkID) :
                  /\ iterator' = [NoIterator EXCEPT !.kind = "store",
                                    !.region = config.region,
                                    !.applyServerAffinity = applyServerAffinity,
                                    !.serverEntryIDs = ids,
                                    !.initialRound = TRUE]
                  /\ ret' = [NoRet EXCEPT !.op = "NewServerEntryIterator",
                               !.flag = applyServerAffinity,
                               !.region = config.region,
                               !.replay = config.replayCount,
                               !.networkID = config.networkID]
                  /\ yielded' = <<>>
                  /\ storeTouched' = FALSE
    /\ UNCHANGED <<serverEntries, keyValues, dialParameters, obf, restVars>>

NewTacticsServerEntryIterator(config) ==
    /\ IF config.target # ""
       THEN newTargetServerEntryIterator(config, TRUE, "NewTacticsServerEntryIterator")
       ELSE IF datastoreViewError(stats, FALSE) # ""
       THEN /\ ret' = [ReturnsError("NewTacticsServerEntryIterator",
                                    datastoreViewError(stats, FALSE))
                          EXCEPT !.region = config.region,
                                 !.replay = config.replayCount,
                                 !.networkID = config.networkID]
            /\ UNCHANGED <<iterator, yielded, storeTouched>>
       ELSE \E ids \in ResetLists(TRUE, FALSE, config.replayCount, config.networkID) :
                  /\ iterator' = [NoIterator EXCEPT !.kind = "store",
                                    !.region = config.region,
                                    !.isTactics = TRUE,
                                    !.serverEntryIDs = ids,
                                    !.initialRound = TRUE]
                  /\ ret' = [NoRet EXCEPT !.op = "NewTacticsServerEntryIterator",
                               !.region = config.region,
                               !.replay = config.replayCount,
                               !.networkID = config.networkID]
                  /\ yielded' = <<>>
                  /\ storeTouched' = FALSE
    /\ UNCHANGED <<serverEntries, keyValues, dialParameters, obf, restVars>>

(* Close, dataStore.go 590-593.                                            *)
MutCloseKeepsCursor(it) == [it EXCEPT !.serverEntryIDs = <<>>]

Close(it) == [it EXCEPT !.serverEntryIDs = <<>>, !.serverEntryIndex = 0]

(* Reset, dataStore.go 466-468, with reset(false): the iterator is closed  *)
(* first, and stays closed when the view fails.                            *)
Reset ==
    /\ iterator.kind # "none"
    /\ IF iterator.kind = "target"
       THEN /\ iterator' = [Close(iterator) EXCEPT !.hasNextTarget = TRUE]
            /\ ret' = [NoRet EXCEPT !.op = "Reset"]
       ELSE IF datastoreViewError(stats, FALSE) # ""
       THEN /\ iterator' = Close(iterator)
            /\ ret' = ReturnsError("Reset", datastoreViewError(stats, FALSE))
       ELSE /\ \E ids \in ResetLists(FALSE, iterator.applyServerAffinity, 0, "") :
                  iterator' = [iterator EXCEPT !.serverEntryIDs = ids,
                                 !.serverEntryIndex = 0, !.initialRound = FALSE]
            /\ ret' = [NoRet EXCEPT !.op = "Reset"]
    /\ yielded' = <<>>
    /\ storeTouched' = FALSE
    /\ UNCHANGED <<serverEntries, keyValues, dialParameters, obf, restVars>>

-----------------------------------------------------------------------------
(* Next, dataStore.go 597-682.                                             *)

(* The filter at lines 665-678.                                            *)
MutPassesFilterAlways(it, serverEntry) == TRUE

PassesFilter(it, serverEntry) ==
    IF it.isTactics
    THEN serverEntry.tactics
    ELSE it.region = "" \/ serverEntry.region = it.region

RECURSIVE NextScan(_, _, _)
(* The loop at lines 619-679 entered with cursor index and the local err:  *)
(* the cursor it leaves, the entry it found (NilData: there is no next     *)
(* item), the error Next returns ("": nil) and the value the local err     *)
(* holds at the return, which the deferred function at lines 602-606       *)
(* reads: a failed json.Unmarshal leaves it set until the next             *)
(* datastoreView.                                                          *)
NextScan(it, index, err) ==
    IF index >= Len(it.serverEntryIDs)
    THEN [index |-> index, entry |-> NilData, returned |-> "", err |-> err]
    ELSE LET serverEntryID == At(it.serverEntryIDs, index)
             viewErr == datastoreViewError(stats, FALSE)
             data == BucketGet(serverEntries, serverEntryID)
         IN  IF viewErr # ""
             THEN [index |-> index + 1, entry |-> NilData, returned |-> viewErr,
                   err |-> viewErr]
             ELSE IF data.kind = "nil" THEN NextScan(it, index + 1, "")
             ELSE IF ~UnmarshalOK(data) THEN NextScan(it, index + 1, "json")
             ELSE IF PassesFilter(it, data)
                  THEN [index |-> index + 1, entry |-> data, returned |-> "",
                        err |-> ""]
                  ELSE NextScan(it, index + 1, "")

(* The target case, lines 608-614: the flag Next leaves and the entry it   *)
(* returns (NilData: there is no next item).                               *)
MutNextTargetKeepsFlag(it) ==
    [hasNextTarget |-> it.hasNextTarget,
     entry |-> IF it.hasNextTarget THEN TargetData(it.target) ELSE NilData]

NextTarget(it) ==
    [hasNextTarget |-> FALSE,
     entry |-> IF it.hasNextTarget THEN TargetData(it.target) ELSE NilData]

IteratorNext ==
    /\ iterator.kind # "none"
    /\ IF iterator.kind = "target"
       THEN LET r == NextTarget(iterator)
            IN  /\ iterator' = [iterator EXCEPT !.hasNextTarget = r.hasNextTarget]
                /\ ret' = [NoRet EXCEPT !.op = "Next", !.entry = r.entry]
                /\ yielded' = IF r.entry.kind = "nil" THEN yielded
                              ELSE Append(yielded, r.entry.ip)
       ELSE LET r == NextScan(iterator, iterator.serverEntryIndex, "")
            IN  /\ iterator' = IF r.err # "" THEN Close(iterator)
                               ELSE [iterator EXCEPT !.serverEntryIndex = r.index]
                /\ ret' = IF r.returned # "" THEN ReturnsError("Next", r.returned)
                          ELSE [NoRet EXCEPT !.op = "Next", !.entry = r.entry]
                /\ yielded' = IF r.entry.kind = "nil" THEN yielded
                              ELSE Append(yielded, r.entry.ip)
    /\ UNCHANGED <<serverEntries, keyValues, dialParameters, storeTouched, obf, restVars>>

-----------------------------------------------------------------------------
(* The obfuscator: seed message, key derivation and stream ciphers.        *)
(* Byte strings are sequences over 0..255.                                 *)

OBFUSCATE_SEED_LENGTH == 16
OBFUSCATE_KEY_LENGTH == 16
OBFUSCATE_HASH_ITERATIONS == 6000
OBFUSCATE_MAX_PADDING == 8192
OBFUSCATE_MAGIC_VALUE == 200657534
OBFUSCATE_CLIENT_TO_SERVER_IV ==
    <<99, 108, 105, 101, 110, 116, 95, 116, 111, 95, 115, 101, 114, 118, 101, 114>>
OBFUSCATE_SERVER_TO_CLIENT_IV ==
    <<115, 101, 114, 118, 101, 114, 95, 116, 111, 95, 99, 108, 105, 101, 110, 116>>

(* prng.SEED_LENGTH, the size of a prng.Seed.                               *)
SEED_LENGTH == 32

(* The length of a SHA-1 digest.                                           *)
Sha1Size == 20

(* a XOR b on bytes, bit by bit.                                           *)
RECURSIVE Xor(_, _)
Xor(a, b) ==
    IF a = 0 THEN b
    ELSE IF b = 0 THEN a
    ELSE ((a + b) % 2) + 2 * Xor(a \div 2, b \div 2)

(* binary.Write(buffer, binary.BigEndian, uint32(n)).                      *)
BigEndianUint32(n) ==
    <<(n \div 16777216) % 256, (n \div 65536) % 256, (n \div 256) % 256, n % 256>>

(* binary.Read(buffer, binary.BigEndian, &v) for an int32 v: the four      *)
(* bytes read as a two's complement number.                                *)
BigEndianInt32(b) ==
    LET low == b[2] * 65536 + b[3] * 256 + b[4]
    IN  IF b[1] >= 128 THEN (b[1] - 256) * 16777216 + low
        ELSE b[1] * 16777216 + low

(* SHA-1 is abstracted by a small position-sensitive checksum; a digest    *)
(* is identified by the final hash state and DigestBytes gives its bytes.  *)
sha1New == 7

(* The contribution of bytes lo..hi of data to the hash state, summed by   *)
(* halves.                                                                 *)
RECURSIVE sha1Write(_, _, _)
sha1Write(data, lo, hi) ==
    IF lo > hi THEN 0
    ELSE IF lo = hi THEN ((lo * 37 + 11) * (data[lo] + 1)) % 65521
    ELSE (sha1Write(data, lo, (lo + hi) \div 2)
            + sha1Write(data, ((lo + hi) \div 2) + 1, hi)) % 65521

sha1Sum(data) == (sha1New + sha1Write(data, 1, Len(data))) % 65521

DigestBytes(h) ==
    [i \in 1..Sha1Size |->
        IF i = 1 THEN h % 256
        ELSE IF i = 2 THEN h \div 256
        ELSE ((h \div i) + i * h) % 256]

(* h.Reset(); h.Write(digest); digest = h.Sum(nil)                          *)
Rehash(h) == (h * 31 + 11) % 65521

(* Rehash applied n times; evaluated by halves so that the evaluation      *)
(* depth stays logarithmic in n (the test on half makes its value known    *)
(* before it is passed on).                                                *)
RECURSIVE RehashTimes(_, _)
RehashTimes(h, n) ==
    IF n = 0 THEN h
    ELSE IF n = 1 THEN Rehash(h)
    ELSE LET half == RehashTimes(h, n \div 2)
         IN  IF half >= 0 THEN RehashTimes(half, n - (n \div 2)) ELSE half

MutDeriveKeyIgnoresIV(obfuscatorSeed, keyword, iv) ==
    SubSeq(DigestBytes(RehashTimes(sha1Sum(obfuscatorSeed \o keyword),
                                   OBFUSCATE_HASH_ITERATIONS)),
           1, OBFUSCATE_KEY_LENGTH)

deriveKey(obfuscatorSeed, keyword, iv) ==
    LET digest == DigestBytes(RehashTimes(
                      sha1Sum(obfuscatorSeed \o keyword \o iv),
                      OBFUSCATE_HASH_ITERATIONS))
    IN  SubSeq(digest, 1, OBFUSCATE_KEY_LENGTH)

(* An rc4.Cipher: its key and the number of key stream bytes used so far.  *)
NilCipher == [key |-> <<>>, n |-> 0]

rc4NewCipher(key) == [key |-> key, n |-> 0]

(* The key stream is abstracted by a byte function of the key and the      *)
(* position in the stream.                                                 *)
KeyStreamByte(key, n) ==
    (key[(n % OBFUSCATE_KEY_LENGTH) + 1]
       + 7 * key[((n \div OBFUSCATE_KEY_LENGTH) % OBFUSCATE_KEY_LENGTH) + 1]
       + 13 * n) % 256

(* cipher.XORKeyStream(buffer, buffer): the bytes produced and the         *)
(* advanced cipher.                                                        *)
XORKeyStream(cipher, buffer) ==
    [cipher |-> [cipher EXCEPT !.n = @ + Len(buffer)],
     out    |-> [i \in 1..Len(buffer) |->
                    Xor(buffer[i], KeyStreamByte(cipher.key, cipher.n + i - 1))]]

initObfuscatorCiphers(obfuscatorSeed, config) ==
    [clientToServerCipher |->
         rc4NewCipher(deriveKey(obfuscatorSeed, config.Keyword, OBFUSCATE_CLIENT_TO_SERVER_IV)),
     serverToClientCipher |->
         rc4NewCipher(deriveKey(obfuscatorSeed, config.Keyword, OBFUSCATE_SERVER_TO_CLIENT_IV))]

(* Values of ObfuscatorConfig.  A *int and a *prng.Seed are sequences:     *)
(* <<>> is nil and <<v>> points to v.                                      *)
Keywords == {<<107, 49>>, <<107, 50>>}

PRNGSeedOf(s) == [i \in 1..SEED_LENGTH |-> (s * 17 + i * 29) % 256]

PaddingPRNGSeeds == {PRNGSeedOf(1)}

GeneratedSeeds == {PRNGSeedOf(3), PRNGSeedOf(4)}

MinPaddings ==
    {<<>>, <<SEED_LENGTH - 1>>, <<SEED_LENGTH>>, <<SEED_LENGTH + 1>>,
     <<OBFUSCATE_MAX_PADDING + 1>>}

MaxPaddings ==
    {<<>>, <<SEED_LENGTH>>, <<OBFUSCATE_MAX_PADDING>>, <<OBFUSCATE_MAX_PADDING + 1>>}

ObfuscatorConfigs ==
    [Keyword : Keywords,
     PaddingPRNGSeed : {<<>>} \cup {<<s>> : s \in PaddingPRNGSeeds},
     MinPadding : MinPaddings,
     MaxPadding : MaxPaddings]

NoConfig ==
    [Keyword |-> <<>>, PaddingPRNGSeed |-> <<>>, MinPadding |-> <<>>, MaxPadding |-> <<>>]

(* common.MakeSecureRandomBytes(OBFUSCATE_SEED_LENGTH)                      *)
ObfuscatorSeeds ==
    {[i \in 1..OBFUSCATE_SEED_LENGTH |-> i],
     [i \in 1..OBFUSCATE_SEED_LENGTH |-> 255 - (3 * i)]}

(* paddingPRNG.Padding(min, max): a length in [min, max] and that many     *)
(* bytes, both drawn from the stream the seed determines.  The lengths the *)
(* stream may give are the two ends of the range and the one after the     *)
(* lower end.                                                              *)
PaddingLengths(minPadding, maxPadding) ==
    {n \in {minPadding, minPadding + 1, maxPadding} : n <= maxPadding}

PaddingBytes(seed, n) ==
    [i \in 1..n |-> (seed[((i - 1) % SEED_LENGTH) + 1] * 7 + seed[1] + 13 * i) % 256]

(* An Obfuscator.                                                          *)
NoObfuscator ==
    [seedMessage |-> <<>>, paddingLength |-> 0, clientToServerCipher |-> NilCipher,
     serverToClientCipher |-> NilCipher, paddingPRNGSeed |-> <<>>]

MutMinPaddingNoLowerBound(config) ==
    IF /\ config.MinPadding # <<>>
       /\ config.MinPadding[1] <= OBFUSCATE_MAX_PADDING
    THEN config.MinPadding[1]
    ELSE SEED_LENGTH

ClientMinPadding(config) ==
    IF /\ config.MinPadding # <<>>
       /\ config.MinPadding[1] >= SEED_LENGTH
       /\ config.MinPadding[1] <= OBFUSCATE_MAX_PADDING
    THEN config.MinPadding[1]
    ELSE SEED_LENGTH

MutMaxPaddingNoUpperBound(config, minPadding) ==
    IF /\ config.MaxPadding # <<>>
       /\ config.MaxPadding[1] >= SEED_LENGTH
       /\ config.MaxPadding[1] >= minPadding
    THEN config.MaxPadding[1]
    ELSE OBFUSCATE_MAX_PADDING

ClientMaxPadding(config, minPadding) ==
    IF /\ config.MaxPadding # <<>>
       /\ config.MaxPadding[1] >= SEED_LENGTH
       /\ config.MaxPadding[1] <= OBFUSCATE_MAX_PADDING
       /\ config.MaxPadding[1] >= minPadding
    THEN config.MaxPadding[1]
    ELSE OBFUSCATE_MAX_PADDING

(* The seed message for a padding already drawn: the seed in the clear,    *)
(* then magic value, padding length and padding under the client-to-server *)
(* cipher.                                                                 *)
makeSeedMessage(padding, obfuscatorSeed, clientToServerCipher) ==
    LET fields == BigEndianUint32(OBFUSCATE_MAGIC_VALUE)
                      \o BigEndianUint32(Len(padding)) \o padding
        x == XORKeyStream(clientToServerCipher, fields)
    IN  [seedMessage |-> obfuscatorSeed \o x.out,
         paddingLength |-> Len(padding),
         clientToServerCipher |-> x.cipher]

(* io.ReadFull(clientReader, make([]byte, n)) with pos bytes already       *)
(* consumed: all n bytes, or an error after consuming what was left.       *)
ReadFull(clientReader, pos, n) ==
    IF Len(clientReader) - pos >= n
    THEN [ok |-> TRUE, bytes |-> SubSeq(clientReader, pos + 1, pos + n), pos |-> pos + n]
    ELSE [ok |-> FALSE, bytes |-> <<>>, pos |-> Len(clientReader)]

MutCheckLengthFirst(magicValue, paddingLength) ==
    IF paddingLength < 0 \/ paddingLength > OBFUSCATE_MAX_PADDING
    THEN "invalid padding length"
    ELSE IF magicValue # OBFUSCATE_MAGIC_VALUE
    THEN "invalid magic value"
    ELSE ""

(* The two checks on the decrypted fixed length fields, in their order.    *)
CheckFixedLengthFields(magicValue, paddingLength) ==
    IF magicValue # OBFUSCATE_MAGIC_VALUE
    THEN "invalid magic value"
    ELSE IF paddingLength < 0 \/ paddingLength > OBFUSCATE_MAX_PADDING
    THEN "invalid padding length"
    ELSE ""

MutPaddingNotDecrypted(cipher, padding) == [cipher |-> cipher, out |-> padding]

(* clientToServerCipher.XORKeyStream(padding, padding)                      *)
DecryptPadding(cipher, padding) == XORKeyStream(cipher, padding)

MutSeedNeedsLongerPadding(padding, newSeed) ==
    IF Len(padding) > SEED_LENGTH
    THEN [seed |-> SubSeq(padding, 1, SEED_LENGTH), generated |-> FALSE]
    ELSE [seed |-> newSeed, generated |-> TRUE]

(* The padding PRNG seed of the server: copied from the padding, or the    *)
(* result newSeed of prng.NewSeed().                                       *)
PaddingPRNGSeedFrom(padding, newSeed) ==
    IF Len(padding) >= SEED_LENGTH
    THEN [seed |-> SubSeq(padding, 1, SEED_LENGTH), generated |-> FALSE]
    ELSE [seed |-> newSeed, generated |-> TRUE]

SeedMessageError(err, consumed) ==
    [err |-> err, consumed |-> consumed, clientToServerCipher |-> NilCipher,
     serverToClientCipher |-> NilCipher, paddingPRNGSeed |-> <<>>, generated |-> FALSE]

readSeedMessage(clientReader, config, newSeed) ==
    LET seed == ReadFull(clientReader, 0, OBFUSCATE_SEED_LENGTH)
    IN  IF ~seed.ok THEN SeedMessageError("EOF", seed.pos)
        ELSE
        LET ciphers == initObfuscatorCiphers(seed.bytes, config)
            fixedLengthFields == ReadFull(clientReader, seed.pos, 8)
        IN  IF ~fixedLengthFields.ok THEN SeedMessageError("EOF", fixedLengthFields.pos)
            ELSE
            LET buffer == XORKeyStream(ciphers.clientToServerCipher, fixedLengthFields.bytes)
                magicValue == BigEndianInt32(SubSeq(buffer.out, 1, 4))
                paddingLength == BigEndianInt32(SubSeq(buffer.out, 5, 8))
                err == CheckFixedLengthFields(magicValue, paddingLength)
            IN  IF err # "" THEN SeedMessageError(err, fixedLengthFields.pos)
                ELSE
                LET padding == ReadFull(clientReader, fixedLengthFields.pos, paddingLength)
                IN  IF ~padding.ok THEN SeedMessageError("EOF", padding.pos)
                    ELSE
                    LET plain == DecryptPadding(buffer.cipher, padding.bytes)
                        paddingPRNGSeed == PaddingPRNGSeedFrom(plain.out, newSeed)
                    IN  [err |-> "", consumed |-> padding.pos,
                         clientToServerCipher |-> plain.cipher,
                         serverToClientCipher |-> ciphers.serverToClientCipher,
                         paddingPRNGSeed |-> paddingPRNGSeed.seed,
                         generated |-> paddingPRNGSeed.generated]

(* The state of one obfuscated connection: the last constructor call and   *)
(* its result, the client and server Obfuscators, the bytes the server's   *)
(* clientReader holds and how many it has consumed, what the writer of     *)
(* the seed message put in it, and the last buffer passed through the      *)
(* stream ciphers.                                                         *)
MaxTransfers == 2

Buffers == {<<0>>, <<72, 105>>}

NoCall == [op |-> "", config |-> NoConfig, err |-> "", minPadding |-> 0, maxPadding |-> 0]

NoFields ==
    [client |-> FALSE, keyword |-> <<>>, magic |-> <<>>, length |-> <<>>, padding |-> <<>>]

NoTransfer == [op |-> "", buffer |-> <<>>, wire |-> <<>>, out |-> <<>>]

ObfIdle ==
    [phase |-> "idle", call |-> NoCall, client |-> NoObfuscator, server |-> NoObfuscator,
     clientReader |-> <<>>, consumed |-> 0, generated |-> FALSE, fields |-> NoFields,
     transfers |-> 0, transfer |-> NoTransfer]

NewClientObfuscator(config) ==
    /\ obf.phase = "idle"
    /\ IF config.PaddingPRNGSeed = <<>>
       THEN obf' = [obf EXCEPT
                !.phase = "failed",
                !.call = [op |-> "NewClientObfuscator", config |-> config,
                          err |-> "missing padding seed",
                          minPadding |-> 0, maxPadding |-> 0]]
       ELSE \E obfuscatorSeed \in ObfuscatorSeeds :
            \E ciphers \in {initObfuscatorCiphers(obfuscatorSeed, config)} :
            LET minPadding == ClientMinPadding(config)
                maxPadding == ClientMaxPadding(config, minPadding)
            IN  \E n \in PaddingLengths(minPadding, maxPadding) :
                \E padding \in {PaddingBytes(config.PaddingPRNGSeed[1], n)} :
                \E m \in {makeSeedMessage(padding, obfuscatorSeed,
                                          ciphers.clientToServerCipher)} :
                    obf' = [obf EXCEPT
                        !.phase = "client",
                        !.call = [op |-> "NewClientObfuscator", config |-> config,
                                  err |-> "", minPadding |-> minPadding,
                                  maxPadding |-> maxPadding],
                        !.client = [seedMessage |-> m.seedMessage,
                                    paddingLength |-> m.paddingLength,
                                    clientToServerCipher |-> m.clientToServerCipher,
                                    serverToClientCipher |-> ciphers.serverToClientCipher,
                                    paddingPRNGSeed |-> config.PaddingPRNGSeed[1]],
                        !.fields = [client |-> TRUE, keyword |-> config.Keyword,
                                    magic |-> BigEndianUint32(OBFUSCATE_MAGIC_VALUE),
                                    length |-> BigEndianUint32(n),
                                    padding |-> padding]]
    /\ UNCHANGED <<dsVars, restVars>>

(* The caller writes the staged seed message to the connection.            *)
SendSeedMessage ==
    /\ obf.phase = "client"
    /\ obf' = [obf EXCEPT
            !.phase = "sent",
            !.call = [NoCall EXCEPT !.op = "SendSeedMessage"],
            !.client.seedMessage = <<>>,
            !.clientReader = obf.client.seedMessage]
    /\ UNCHANGED <<dsVars, restVars>>

(* Bytes that reach a server from a peer other than NewClientObfuscator:   *)
(* a legacy client with a short padding, or a prober with any fields.      *)
MagicFields ==
    {BigEndianUint32(OBFUSCATE_MAGIC_VALUE), BigEndianUint32(OBFUSCATE_MAGIC_VALUE + 1)}

LengthFields ==
    {<<255, 255, 255, 255>>} \cup
    {BigEndianUint32(n) : n \in {0, 1, SEED_LENGTH - 1, SEED_LENGTH,
                                 OBFUSCATE_MAX_PADDING, OBFUSCATE_MAX_PADDING + 1}}

PeerPaddingLengths(length) ==
    {0, 1} \cup
    (IF BigEndianInt32(length) >= 0 /\ BigEndianInt32(length) <= OBFUSCATE_MAX_PADDING
     THEN {BigEndianInt32(length)} ELSE {})

PeerWritesSeedMessage(keyword, obfuscatorSeed, magic, length, n) ==
    /\ obf.phase = "idle"
    /\ \E padding \in {PaddingBytes(PRNGSeedOf(1), n)} :
       \E ciphers \in {initObfuscatorCiphers(obfuscatorSeed,
                                             [NoConfig EXCEPT !.Keyword = keyword])} :
       \E x \in {XORKeyStream(ciphers.clientToServerCipher, magic \o length \o padding)} :
           obf' = [obf EXCEPT
               !.phase = "sent",
               !.clientReader = obfuscatorSeed \o x.out,
               !.fields = [client |-> FALSE, keyword |-> keyword, magic |-> magic,
                           length |-> length, padding |-> padding]]
    /\ UNCHANGED <<dsVars, restVars>>

(* A connection that closes before the fixed length fields are complete.   *)
ShortLengths == {0, OBFUSCATE_SEED_LENGTH - 1, OBFUSCATE_SEED_LENGTH + 7}

PeerWritesShort(n) ==
    /\ obf.phase = "idle"
    /\ obf' = [obf EXCEPT
            !.phase = "sent",
            !.clientReader = [i \in 1..n |-> i]]
    /\ UNCHANGED <<dsVars, restVars>>

NewServerObfuscator(config, newSeed) ==
    /\ obf.phase = "sent"
    /\ \E r \in {readSeedMessage(obf.clientReader, config, newSeed)} :
           obf' = [obf EXCEPT
               !.phase = IF r.err = "" THEN "server" ELSE "rejected",
               !.call = [op |-> "NewServerObfuscator", config |-> config,
                         err |-> r.err, minPadding |-> 0, maxPadding |-> 0],
               !.consumed = r.consumed,
               !.generated = r.generated,
               !.server = IF r.err # "" THEN NoObfuscator
                          ELSE [seedMessage |-> <<>>, paddingLength |-> -1,
                                clientToServerCipher |-> r.clientToServerCipher,
                                serverToClientCipher |-> r.serverToClientCipher,
                                paddingPRNGSeed |-> r.paddingPRNGSeed]]
    /\ UNCHANGED <<dsVars, restVars>>

ObfuscateClientToServer(obfuscator, buffer) ==
    XORKeyStream(obfuscator.clientToServerCipher, buffer)

ObfuscateServerToClient(obfuscator, buffer) ==
    XORKeyStream(obfuscator.serverToClientCipher, buffer)

(* The client obfuscates a buffer and the server applies the same          *)
(* operation to what arrives.                                              *)
TransferClientToServer(buffer) ==
    /\ obf.phase = "server"
    /\ obf.fields.client
    /\ obf.transfers < MaxTransfers
    /\ \E c \in {ObfuscateClientToServer(obf.client, buffer)} :
       \E s \in {ObfuscateClientToServer(obf.server, c.out)} :
           obf' = [obf EXCEPT
               !.client.clientToServerCipher = c.cipher,
               !.server.clientToServerCipher = s.cipher,
               !.transfers = @ + 1,
               !.transfer = [op |-> "ObfuscateClientToServer", buffer |-> buffer,
                             wire |-> c.out, out |-> s.out]]
    /\ UNCHANGED <<dsVars, restVars>>

(* The server obfuscates a buffer and the client applies the same          *)
(* operation to what arrives.                                              *)
TransferServerToClient(buffer) ==
    /\ obf.phase = "server"
    /\ obf.fields.client
    /\ obf.transfers < MaxTransfers
    /\ \E s \in {ObfuscateServerToClient(obf.server, buffer)} :
       \E c \in {ObfuscateServerToClient(obf.client, s.out)} :
           obf' = [obf EXCEPT
               !.client.serverToClientCipher = c.cipher,
               !.server.serverToClientCipher = s.cipher,
               !.transfers = @ + 1,
               !.transfer = [op |-> "ObfuscateServerToClient", buffer |-> buffer,
                             wire |-> s.out, out |-> c.out]]
    /\ UNCHANGED <<dsVars, restVars>>

-----------------------------------------------------------------------------
(* The randomized ClientHello of utls (u_parrots.go).  A ClientHello is    *)
(* described by the choices its assembly makes: the hello variant, the     *)
(* cipher suites, the signature algorithms, the curves and the extensions. *)

(* A prng.PRNG made from a seed: the seed and the number of values drawn.  *)
(* The k-th value of the stream is a function of the seed and k.           *)
MaxSeed == 7

ClientHelloSeeds == 0..MaxSeed

NewPRNGWithSeed(seed) == [seed |-> seed, n |-> 0]

PRNGValue(seed, k) ==
    ((seed + 1) * 7919 + (k + 1) * 104729 + seed * k * 31) % 65521

(* PRNG.Intn(n): a value in 0..n-1 and the advanced PRNG.                  *)
Intn(PRNG, n) ==
    [value |-> PRNGValue(PRNG.seed, PRNG.n) % n,
     PRNG  |-> [PRNG EXCEPT !.n = @ + 1]]

(* One iteration of the loop of PRNG.Perm, as math/rand:                   *)
(* j := Intn(i + 1); m[i] = m[j]; m[j] = i.  Sequences are indexed from 1. *)
PermStep(PRNG, m, i) ==
    LET j == Intn(PRNG, i + 1)
    IN  [value |-> [[m EXCEPT ![i + 1] = m[j.value + 1]] EXCEPT ![j.value + 1] = i],
         PRNG  |-> j.PRNG]

RECURSIVE PermFrom(_, _, _)
PermFrom(st, i, n) ==
    IF i >= n THEN st
    ELSE CHOOSE r \in {PermFrom(x, i + 1, n) :
                          x \in {PermStep(st.PRNG, st.value, i)}} : TRUE

(* PRNG.Perm(n)                                                            *)
Perm(PRNG, n) == PermFrom([value |-> [k \in 1..n |-> 0], PRNG |-> PRNG], 0, n)

(* tossBiasedCoin(PRNG, num / den): value := PRNG.Intn(0xffff);            *)
(* value <= 0xffff * probability.                                          *)
tossBiasedCoin(PRNG, num, den) ==
    LET value == Intn(PRNG, 65535)
    IN  [value |-> value.value * den <= 65535 * num, PRNG |-> value.PRNG]

(* The package's cipher suites, with the suiteTLS12 flag.                  *)
cipherSuites ==
    <<[id |-> "ECDHE_RSA_AES_128_GCM_SHA256", tls12 |-> TRUE],
      [id |-> "RSA_RC4_128_SHA", tls12 |-> FALSE],
      [id |-> "ECDHE_ECDSA_AES_256_GCM_SHA384", tls12 |-> TRUE],
      [id |-> "RSA_AES_128_CBC_SHA", tls12 |-> FALSE]>>

(* sortableCiphers.Less                                                    *)
Less(a, b) ==
    IF a.isObsolete /\ ~b.isObsolete THEN FALSE
    ELSE IF b.isObsolete /\ ~a.isObsolete THEN TRUE
    ELSE a.randomTag < b.randomTag

(* sort.Sort of ciphers whose random tags differ: each cipher goes to the  *)
(* place given by the number of ciphers that are Less.                     *)
SortCiphers(ciphers) ==
    LET place(i) == 1 + Cardinality({k \in 1..Len(ciphers) : Less(ciphers[k], ciphers[i])})
    IN  [p \in 1..Len(ciphers) |->
            ciphers[CHOOSE i \in 1..Len(ciphers) : place(i) = p]]

(* sortableCiphers.GetCiphers                                              *)
GetCiphers(ciphers) == [i \in 1..Len(ciphers) |-> ciphers[i].suite]

shuffledCiphers(PRNG) ==
    CHOOSE r \in
        {[value |-> GetCiphers(SortCiphers(
                        [i \in 1..Len(cipherSuites) |->
                            [suite |-> cipherSuites[i].id,
                             isObsolete |-> ~cipherSuites[i].tls12,
                             randomTag |-> perm.value[i]]])),
          PRNG  |-> perm.PRNG] : perm \in {Perm(PRNG, Len(cipherSuites))}} : TRUE

RemoveAt(s, i) == SubSeq(s, 1, i) \o SubSeq(s, i + 2, Len(s))

(* One iteration of the loop of removeRandomCiphers at index st.i (from 0),*)
(* with the removal probability num / den * i / floatLen: the element is   *)
(* removed and the index stays, or the index advances.                     *)
removeStep(st, num, den, floatLen) ==
    LET toss == tossBiasedCoin(st.PRNG, num * st.i, den * floatLen)
    IN  IF toss.value
        THEN [value |-> RemoveAt(st.value, st.i), PRNG |-> toss.PRNG, i |-> st.i]
        ELSE [value |-> st.value, PRNG |-> toss.PRNG, i |-> st.i + 1]

RECURSIVE removeFrom(_, _, _, _)
removeFrom(st, num, den, floatLen) ==
    IF st.i >= Len(st.value) THEN [value |-> st.value, PRNG |-> st.PRNG]
    ELSE CHOOSE r \in {removeFrom(x, num, den, floatLen) :
                          x \in {removeStep(st, num, den, floatLen)}} : TRUE

removeRandomCiphers(PRNG, s, num, den) ==
    IF Len(s) <= 1 THEN [value |-> s, PRNG |-> PRNG]
    ELSE removeFrom([value |-> s, PRNG |-> PRNG, i |-> 1], num, den, Len(s))

(* s[i], s[j] = s[j], s[i], indices from 0                                 *)
SwapAt(s, i, j) == [[s EXCEPT ![i + 1] = s[j + 1]] EXCEPT ![j + 1] = s[i + 1]]

(* for i := range s { s[i], s[perm[i]] = s[perm[i]], s[i] }                 *)
RECURSIVE swapFrom(_, _, _)
swapFrom(s, perm, i) ==
    IF i >= Len(s) THEN s
    ELSE CHOOSE r \in {swapFrom(x, perm, i + 1) :
                          x \in {SwapAt(s, i, perm[i + 1])}} : TRUE

(* shuffleSignatures and shuffleTLSExtensions                              *)
shuffle(PRNG, s) ==
    CHOOSE r \in {[value |-> swapFrom(s, perm.value, 0), PRNG |-> perm.PRNG] :
                     perm \in {Perm(PRNG, Len(s))}} : TRUE

(* if tossBiasedCoin(PRNG, num / den) { list = append(list, item) }        *)
appendOnToss(PRNG, list, item, num, den) ==
    LET toss == tossBiasedCoin(PRNG, num, den)
    IN  [value |-> IF toss.value THEN Append(list, item) ELSE list,
         PRNG  |-> toss.PRNG]

NilSeed == <<>>

NoHello ==
    [built |-> FALSE, err |-> "", clientHelloID |-> "", CipherSuites |-> <<>>,
     sigAndHashAlgos |-> <<>>, curveIDs |-> <<>>, Extensions |-> <<>>,
     NextProtos |-> <<>>]

(* The k-th PRNG-consuming statement of parrotRandomizedNoALPN, applied to *)
(* the PRNG and the lists built so far.                                    *)
ParrotSteps == 13

parrotStep(st, k) ==
    LET on(field, toss) == [st EXCEPT ![field] = toss.value, !.PRNG = toss.PRNG]
    IN  CASE k = 1 -> on("CipherSuites", shuffledCiphers(st.PRNG))
          [] k = 2 -> on("CipherSuites", removeRandomCiphers(st.PRNG, st.CipherSuites, 4, 10))
          [] k = 3 -> on("sigAndHashAlgos",
                         appendOnToss(st.PRNG,
                             <<"SHA256_ECDSA", "SHA256_RSA", "SHA384_ECDSA",
                               "SHA384_RSA", "SHA1_RSA">>,
                             "SHA512_ECDSA", 1, 2))
          [] k = 4 -> on("sigAndHashAlgos",
                         appendOnToss(st.PRNG, st.sigAndHashAlgos, "SHA512_RSA", 1, 2))
          [] k = 5 -> on("sigAndHashAlgos",
                         appendOnToss(st.PRNG, st.sigAndHashAlgos, "SHA1_ECDSA", 1, 2))
          [] k = 6 -> on("sigAndHashAlgos", shuffle(st.PRNG, st.sigAndHashAlgos))
          [] k = 7 -> on("curveIDs", appendOnToss(st.PRNG, <<>>, "X25519", 7, 10))
          [] k = 8 -> on("curveIDs",
                         appendOnToss(st.PRNG, st.curveIDs \o <<"CurveP256", "CurveP384">>,
                                      "CurveP521", 3, 10))
          [] k = 9 -> on("Extensions",
                         appendOnToss(st.PRNG,
                             <<"sni", "sessionTicket", "sigAndHash", "points", "curves">>,
                             "padding", 66, 100))
          [] k = 10 -> on("Extensions", appendOnToss(st.PRNG, st.Extensions, "status", 66, 100))
          [] k = 11 -> on("Extensions", appendOnToss(st.PRNG, st.Extensions, "sct", 55, 100))
          [] k = 12 -> on("Extensions", appendOnToss(st.PRNG, st.Extensions, "reneg", 44, 100))
          [] k = 13 -> on("Extensions", shuffle(st.PRNG, st.Extensions))

RECURSIVE parrotFrom(_, _)
parrotFrom(st, k) ==
    IF k > ParrotSteps THEN st
    ELSE CHOOSE r \in {parrotFrom(x, k + 1) : x \in {parrotStep(st, k)}} : TRUE

(* parrotRandomizedNoALPN on a UConn with the given clientHelloPRNGSeed    *)
(* (NilSeed or <<seed>>): the choices it leaves in the UConn.              *)
parrotRandomizedNoALPN(uconn, clientHelloPRNGSeed) ==
    IF clientHelloPRNGSeed = NilSeed
    THEN [uconn EXCEPT !.built = TRUE, !.err = "missing UConn.clientHelloPRNGSeed"]
    ELSE CHOOSE r \in
            {[uconn EXCEPT !.built = TRUE, !.err = "",
                           !.CipherSuites = st.CipherSuites,
                           !.sigAndHashAlgos = st.sigAndHashAlgos,
                           !.curveIDs = st.curveIDs,
                           !.Extensions = st.Extensions] :
                st \in {parrotFrom(
                           [PRNG |-> NewPRNGWithSeed(clientHelloPRNGSeed[1]),
                            CipherSuites |-> <<>>, sigAndHashAlgos |-> <<>>,
                            curveIDs |-> <<>>, Extensions |-> <<>>], 1)}} : TRUE

(* parrotRandomizedALPN: the ALPN extension is appended whether or not     *)
(* parrotRandomizedNoALPN failed.                                          *)
parrotRandomizedALPN(uconn, clientHelloPRNGSeed) ==
    CHOOSE r \in
        {[u EXCEPT !.NextProtos = IF Len(u.NextProtos) = 0
                                  THEN <<"h2", "http/1.1">> ELSE u.NextProtos,
                   !.Extensions = Append(@, "alpn")] :
            u \in {parrotRandomizedNoALPN(uconn, clientHelloPRNGSeed)}} : TRUE

RandomizedHelloIDs == {"HelloRandomized", "HelloRandomizedALPN", "HelloRandomizedNoALPN"}

(* generateClientHelloConfig for the randomized ids.  flipCoin is the      *)
(* result of prng.FlipCoin(), the process-wide generator, which does not   *)
(* depend on clientHelloPRNGSeed.                                          *)
generateClientHelloConfig(uconn, id, clientHelloPRNGSeed, flipCoin) ==
    LET alias == IF id = "HelloRandomized"
                 THEN (IF flipCoin THEN "HelloRandomizedALPN" ELSE "HelloRandomizedNoALPN")
                 ELSE id
        u == [uconn EXCEPT !.clientHelloID = alias]
    IN  IF alias = "HelloRandomizedALPN"
        THEN parrotRandomizedALPN(u, clientHelloPRNGSeed)
        ELSE parrotRandomizedNoALPN(u, clientHelloPRNGSeed)

ConfigNextProtos == {<<>>, <<"http/1.1">>}

HelloIdle ==
    [phase |-> "idle", id |-> "", seed |-> NilSeed, NextProtos |-> <<>>,
     first |-> NoHello, second |-> NoHello]

(* Two UConns are made for the same ClientHelloID and seed (utls.UClient   *)
(* and SetClientRandom/seed assignment in CustomTLSDial).                  *)
UClient(id, seed, nextProtos) ==
    /\ hello.phase = "idle"
    /\ hello' = [hello EXCEPT !.phase = "made", !.id = id, !.seed = seed,
                              !.NextProtos = nextProtos]
    /\ UNCHANGED <<dsVars, obf, dial, stats, lastSet, moreVars>>

(* The first UConn assembles its ClientHello.                              *)
BuildFirst(flipCoin) ==
    /\ hello.phase = "made"
    /\ ~hello.first.built
    /\ \E u \in {generateClientHelloConfig(
                    [NoHello EXCEPT !.NextProtos = hello.NextProtos],
                    hello.id, hello.seed, flipCoin)} :
          hello' = [hello EXCEPT !.first = u]
    /\ UNCHANGED <<dsVars, obf, dial, stats, lastSet, moreVars>>

(* The second UConn assembles its ClientHello.                             *)
BuildSecond(flipCoin) ==
    /\ hello.phase = "made"
    /\ ~hello.second.built
    /\ \E u \in {generateClientHelloConfig(
                    [NoHello EXCEPT !.NextProtos = hello.NextProtos],
                    hello.id, hello.seed, flipCoin)} :
          hello' = [hello EXCEPT !.second = u]
    /\ UNCHANGED <<dsVars, obf, dial, stats, lastSet, moreVars>>

-----------------------------------------------------------------------------
(* CustomTLSDial (tlsDialer.go): one call, its handshake goroutine and the *)
(* caller's context.                                                       *)

TLS_PROFILE_CHROME_58 == "Chrome-58"

TLS_PROFILE_RANDOMIZED == "Randomized"

TLS_PROFILE_TLS13_RANDOMIZED == "TLS-1.3-Randomized"

SupportedTLSProfiles ==
    <<TLS_PROFILE_CHROME_58, TLS_PROFILE_RANDOMIZED, TLS_PROFILE_TLS13_RANDOMIZED>>

TLSProfileIsRandomized(tlsProfile) ==
    tlsProfile \in {TLS_PROFILE_RANDOMIZED, TLS_PROFILE_TLS13_RANDOMIZED}

TLSProfileIsTLS13(tlsProfile) == tlsProfile = TLS_PROFILE_TLS13_RANDOMIZED

(* common.Contains                                                         *)
Contains(list, target) == \E i \in 1..Len(list) : list[i] = target

MutCandidatesIgnoreLimit(limitTLSProfiles) == SupportedTLSProfiles

(* The candidates SelectTLSProfile collects: the supported profiles, in    *)
(* order, less those missing from a non-empty limit list.                  *)
TLSProfileCandidates(limitTLSProfiles) ==
    LET keep(tlsProfile) ==
            ~(Len(limitTLSProfiles) > 0 /\ ~Contains(limitTLSProfiles, tlsProfile))
    IN  SelectSeq(SupportedTLSProfiles, keep)

(* SelectTLSProfile: the set of values it can return, one for each result  *)
(* of prng.Intn(len(tlsProfiles)).                                         *)
SelectTLSProfile(limitTLSProfiles) ==
    LET tlsProfiles == TLSProfileCandidates(limitTLSProfiles)
    IN  IF Len(tlsProfiles) = 0 THEN {""}
        ELSE {tlsProfiles[choice + 1] : choice \in 0..(Len(tlsProfiles) - 1)}

useUTLS(tlsProfile) == tlsProfile # TLS_PROFILE_TLS13_RANDOMIZED

getUTLSClientHelloID(tlsProfile) ==
    CASE tlsProfile = TLS_PROFILE_CHROME_58 -> "HelloChrome_58"
      [] tlsProfile = TLS_PROFILE_RANDOMIZED -> "HelloRandomized"
      [] OTHER -> "HelloGolang"

(* Addresses are <<host, port>>, or <<host>> when the port is missing.     *)
Addr == <<"example.org", "443">>

NoAddr == <<>>

DialAddrs == {NoAddr, <<"front.net", "443">>, <<"front.net">>}

(* net.SplitHostPort                                                       *)
SplitHostPort(hostport) ==
    IF Len(hostport) = 2 THEN [host |-> hostport[1], err |-> ""]
    ELSE [host |-> "", err |-> "missing port in address"]

(* An ObfuscatedSessionTicketKey string: whether it is hexadecimal and the *)
(* number of bytes it encodes; the empty string is NoKey.                  *)
NoKey == [hex |-> TRUE, bytes |-> 0]

SessionTicketKeys ==
    {NoKey, [hex |-> TRUE, bytes |-> 32], [hex |-> TRUE, bytes |-> 16],
     [hex |-> FALSE, bytes |-> 0]}

(* hex.DecodeString and the length check that follows it                   *)
DecodeKeyError(key) ==
    IF ~key.hex THEN "encoding/hex: invalid byte"
    ELSE IF key.bytes # 32 THEN "invalid obfuscated session key length"
    ELSE ""

CACertificatesFilenames == {"", "ca.pem", "missing.pem"}

(* ioutil.ReadFile                                                         *)
ReadFileError(filename) ==
    IF filename = "ca.pem" THEN "" ELSE "open: no such file or directory"

(* A certificate: its raw DER bytes and the DNS names for which it         *)
(* verifies (chain, time and name).  NoCertificate is the nil pointer.     *)
NoCertificate == [Raw |-> "", names |-> {}]

LegacyCertificate == [Raw |-> "legacy", names |-> {}]

PeerCertificateLists ==
    {<<>>,
     <<LegacyCertificate>>,
     <<[Raw |-> "selfsigned", names |-> {}]>>,
     <<[Raw |-> "leaf", names |-> {"example.org", "sni.org"}],
       [Raw |-> "intermediate", names |-> {}]>>}

(* certs[0].Verify(opts) with opts.DNSName = name                          *)
VerifyError(certs, name) ==
    IF name \in certs[1].names THEN "" ELSE "x509: certificate is not valid"

verifyLegacyCertificate(certs, expectedCertificate) ==
    IF Len(certs) < 1 THEN "no certificate to verify"
    ELSE IF certs[1].Raw # expectedCertificate.Raw THEN "unexpected certificate"
    ELSE ""

(* verifyServerCerts indexes certs[0]: with no certificate it panics.      *)
verifyServerCerts(certs, hostname) ==
    IF Len(certs) = 0 THEN "panic: index out of range"
    ELSE VerifyError(certs, hostname)

DialConfigs ==
    {config \in
        [DialAddr : DialAddrs,
         UseDialAddrSNI : BOOLEAN,
         SNIServerName : {"", "sni.org"},
         SkipVerify : BOOLEAN,
         VerifyLegacyCertificate : {NoCertificate, LegacyCertificate},
         TLSProfile : {"", TLS_PROFILE_CHROME_58, TLS_PROFILE_TLS13_RANDOMIZED},
         LimitTLSProfiles : {<<>>, <<TLS_PROFILE_RANDOMIZED>>, <<"unsupported">>},
         RandomizedTLSProfileSeed : {NilSeed, <<0>>},
         TrustedCACertificatesFilename : CACertificatesFilenames,
         ObfuscatedSessionTicketKey : SessionTicketKeys] :
        config.TLSProfile # "" => config.LimitTLSProfiles = <<>>}

NoDialConfig ==
    [DialAddr |-> NoAddr, UseDialAddrSNI |-> FALSE, SNIServerName |-> "",
     SkipVerify |-> FALSE, VerifyLegacyCertificate |-> NoCertificate,
     TLSProfile |-> "", LimitTLSProfiles |-> <<>>,
     RandomizedTLSProfileSeed |-> NilSeed,
     TrustedCACertificatesFilename |-> "",
     ObfuscatedSessionTicketKey |-> NoKey]

(* What the environment decides during one call: the outcome of the raw    *)
(* dial, of prng.Intn in SelectTLSProfile, of prng.NewSeed and of          *)
(* utls.NewObfuscatedClientSessionState.                                   *)
DialEnvs(config) ==
    [dialErr : BOOLEAN,
     selected : SelectTLSProfile(config.LimitTLSProfiles),
     newSeedErr : BOOLEAN,
     sessionStateErr : BOOLEAN]

(* pc: where CustomTLSDial is ("idle", "select", "join", "returned",       *)
(* "panicked"); goroutine: where the handshake goroutine is ("none",       *)
(* "running", "sending" on resultChannel, "done"); steps: what the call    *)
(* has done, in order.                                                     *)
DialIdle ==
    [pc |-> "idle", config |-> NoDialConfig, rawConn |-> "none",
     hostname |-> "", selectedTLSProfile |-> "",
     tlsConfigInsecureSkipVerify |-> FALSE, tlsConfigServerName |-> "",
     randomizedTLSProfileSeed |-> NilSeed, clientHelloID |-> "",
     goroutine |-> "none", handshakeErr |-> "", peerCertificates |-> <<>>,
     ctxDone |-> FALSE, cancelledWhileRunning |-> FALSE,
     err |-> "", conn |-> FALSE, steps |-> <<>>]

Did(d, step) == [d EXCEPT !.steps = Append(@, step)]

MutCloseLeavesOpen(d) == Did(d, "close")

(* rawConn.Close()                                                         *)
CloseRawConn(d) == Did([d EXCEPT !.rawConn = "closed"], "close")

(* return nil, common.ContextError(err)                                    *)
ReturnError(d, err) ==
    Did([d EXCEPT !.pc = "returned", !.err = err, !.conn = FALSE], "return")

MutInsecureOnlySkipVerify(config) == config.SkipVerify

(* Lines 296-315: InsecureSkipVerify and ServerName of the TLS config.     *)
InsecureSkipVerifyOf(config) ==
    \/ config.SkipVerify
    \/ ~config.UseDialAddrSNI
       /\ ~(config.SNIServerName # "" /\ config.VerifyLegacyCertificate = NoCertificate)

ServerNameOf(config, hostname) ==
    IF config.UseDialAddrSNI THEN hostname
    ELSE IF config.SNIServerName # "" /\ config.VerifyLegacyCertificate = NoCertificate
         THEN config.SNIServerName
         ELSE ""

(* Lines 317-436, after the raw dial and the address split succeeded:      *)
(* the key, the CA file, the seed, the TLS provider's connection and the   *)
(* start of the handshake goroutine.                                       *)
PrepareHandshake(d, env) ==
    LET config == d.config
        needSeed == /\ TLSProfileIsRandomized(d.selectedTLSProfile)
                    /\ config.RandomizedTLSProfileSeed = NilSeed
    IN  IF config.ObfuscatedSessionTicketKey # NoKey
           /\ DecodeKeyError(config.ObfuscatedSessionTicketKey) # ""
        THEN ReturnError(d, DecodeKeyError(config.ObfuscatedSessionTicketKey))
        ELSE IF /\ ~config.SkipVerify
                /\ config.VerifyLegacyCertificate = NoCertificate
                /\ config.TrustedCACertificatesFilename # ""
                /\ ReadFileError(config.TrustedCACertificatesFilename) # ""
        THEN ReturnError(d, ReadFileError(config.TrustedCACertificatesFilename))
        ELSE IF needSeed /\ env.newSeedErr
        THEN ReturnError(d, "prng.NewSeed failed")
        ELSE IF /\ useUTLS(d.selectedTLSProfile)
                /\ config.ObfuscatedSessionTicketKey # NoKey
                /\ env.sessionStateErr
        THEN ReturnError(d, "NewObfuscatedClientSessionState failed")
        ELSE IF ~useUTLS(d.selectedTLSProfile) /\ ~TLSProfileIsTLS13(d.selectedTLSProfile)
        THEN ReturnError(d, "TLS profile is not TLS 1.3")
        ELSE Did([d EXCEPT
                    !.randomizedTLSProfileSeed =
                        IF needSeed THEN <<1>> ELSE config.RandomizedTLSProfileSeed,
                    !.clientHelloID =
                        IF useUTLS(d.selectedTLSProfile)
                        THEN getUTLSClientHelloID(d.selectedTLSProfile) ELSE "",
                    !.goroutine = "running",
                    !.pc = "select"], "handshake")

(* Lines 274-436: CustomTLSDial up to its select statement.                *)
DialAndPrepare(config, env) ==
    LET dialAddr == IF config.DialAddr # NoAddr THEN config.DialAddr ELSE Addr
        called == Did([DialIdle EXCEPT !.config = config], "dial")
        split == SplitHostPort(dialAddr)
        selectedTLSProfile ==
            IF config.TLSProfile = "" THEN env.selected ELSE config.TLSProfile
    IN  IF env.dialErr THEN ReturnError(called, "dial failed")
        ELSE IF split.err # ""
        THEN ReturnError(CloseRawConn([called EXCEPT !.rawConn = "open"]), split.err)
        ELSE PrepareHandshake(
                [called EXCEPT
                    !.rawConn = "open",
                    !.hostname = split.host,
                    !.selectedTLSProfile = selectedTLSProfile,
                    !.tlsConfigInsecureSkipVerify = InsecureSkipVerifyOf(config),
                    !.tlsConfigServerName = ServerNameOf(config, split.host)],
                env)

MutVerifyDespiteError(d, err) ==
    ~d.config.SkipVerify /\ d.tlsConfigInsecureSkipVerify

(* Line 447: err == nil && !config.SkipVerify && tlsConfigInsecureSkipVerify *)
NeedsManualVerification(d, err) ==
    err = "" /\ ~d.config.SkipVerify /\ d.tlsConfigInsecureSkipVerify

(* Lines 447-462: manual verification and the return.                      *)
VerifyAndReturn(d, err) ==
    LET config == d.config
        verifies == NeedsManualVerification(d, err)
        verr == IF ~verifies THEN err
                ELSE IF config.VerifyLegacyCertificate # NoCertificate
                THEN verifyLegacyCertificate(d.peerCertificates,
                                             config.VerifyLegacyCertificate)
                ELSE verifyServerCerts(d.peerCertificates, d.hostname)
        v == IF verifies THEN Did(d, "verify") ELSE d
    IN  IF verr = "panic: index out of range"
        THEN [v EXCEPT !.pc = "panicked", !.err = verr]
        ELSE IF verr # "" THEN ReturnError(CloseRawConn(v), verr)
        ELSE Did([v EXCEPT !.pc = "returned", !.err = "", !.conn = TRUE], "return")

(* CustomTLSDial is called and runs up to its select statement, or to an   *)
(* earlier return.                                                         *)
CustomTLSDial(config, env) ==
    /\ dial.pc = "idle"
    /\ dial' = DialAndPrepare(config, env)
    /\ UNCHANGED <<dsVars, obf, hello, stats, lastSet, moreVars>>

(* The caller cancels the context while the call is at its select.         *)
CancelContext ==
    /\ dial.pc = "select"
    /\ ~dial.ctxDone
    /\ dial' = [dial EXCEPT !.ctxDone = TRUE,
                            !.cancelledWhileRunning = dial.goroutine = "running"]
    /\ UNCHANGED <<dsVars, obf, hello, stats, lastSet, moreVars>>

(* The goroutine: conn.Handshake() returns and the goroutine offers the    *)
(* result on resultChannel.  On a closed raw connection the handshake      *)
(* fails; otherwise the network or the library's verification may fail it. *)
Handshake(certs, networkErr) ==
    /\ dial.goroutine = "running"
    /\ LET herr == IF dial.rawConn = "closed" THEN "use of closed network connection"
                   ELSE IF networkErr THEN "handshake failure"
                   ELSE IF dial.tlsConfigInsecureSkipVerify THEN ""
                   ELSE IF Len(certs) = 0 THEN "tls: no certificates"
                   ELSE VerifyError(certs, dial.tlsConfigServerName)
       IN  dial' = [dial EXCEPT !.goroutine = "sending",
                                !.handshakeErr = herr,
                                !.peerCertificates = IF herr = "" THEN certs ELSE <<>>]
    /\ UNCHANGED <<dsVars, obf, hello, stats, lastSet, moreVars>>

(* select, case err = <-resultChannel: the goroutine ends, and the call    *)
(* goes on to its return.                                                  *)
SelectResult ==
    /\ dial.pc = "select"
    /\ dial.goroutine = "sending"
    /\ dial' = VerifyAndReturn(Did([dial EXCEPT !.goroutine = "done"], "result"),
                               dial.handshakeErr)
    /\ UNCHANGED <<dsVars, obf, hello, stats, lastSet, moreVars>>

MutCancelReturnsAtOnce(d) ==
    ReturnError(CloseRawConn(Did(d, "cancel")), "context canceled")

(* select, case <-ctx.Done(): err = ctx.Err(); rawConn.Close(); then the   *)
(* call waits on resultChannel.                                            *)
OnContextDone(d) ==
    [CloseRawConn(Did(d, "cancel")) EXCEPT !.pc = "join", !.err = "context canceled"]

SelectContextDone ==
    /\ dial.pc = "select"
    /\ dial.ctxDone
    /\ dial' = OnContextDone(dial)
    /\ UNCHANGED <<dsVars, obf, hello, stats, lastSet, moreVars>>

(* <-resultChannel after the cancellation: the goroutine ends, and the     *)
(* call returns the context's error.                                       *)
JoinGoroutine ==
    /\ dial.pc = "join"
    /\ dial.goroutine = "sending"
    /\ dial' = VerifyAndReturn(Did([dial EXCEPT !.goroutine = "done"], "result"),
                               dial.err)
    /\ UNCHANGED <<dsVars, obf, hello, stats, lastSet, moreVars>>

-----------------------------------------------------------------------------
(* The persistent stats of the datastore and OpenDataStore (dataStore.go   *)
(* 58-133, 951-1210).  A stats bucket maps a stat record to its state.     *)

persistentStatStateUnreported == "0"

persistentStatStateReporting == "1"

persistentStatTypes == <<"remoteServerListStats", "failedTunnelStats">>

StatTypes == {persistentStatTypes[i] : i \in 1..Len(persistentStatTypes)}

(* The stat records, in the order a cursor visits them, and the number of  *)
(* bytes of a record.                                                      *)
StatKeys == <<"s1", "s2">>

StatBytes(key) == 2

NoStats == [statType \in StatTypes |-> <<>>]

(* The buckets a process may find when it starts: each record absent,      *)
(* unreported, or left in the reporting state by the previous process.     *)
StatBuckets ==
    UNION {[keys -> {persistentStatStateUnreported, persistentStatStateReporting}] :
              keys \in SUBSET {StatKeys[i] : i \in 1..Len(StatKeys)}}

InitialStats == [StatTypes -> StatBuckets]

(* activeDatastoreDB: whether the singleton is set; pc: where the          *)
(* OpenDataStore call is ("idle", or "reset": the mutex is released and    *)
(* resetAllPersistentStatsToUnreported is about to run); resetErr: the     *)
(* error that call returned; op, err: the last call of any goroutine and   *)
(* its error; taken, maxSendBytes: the records the last take-out returned  *)
(* and the limit it was given, until another stats function is called.     *)
StatsIdle ==
    [activeDatastoreDB |-> FALSE, buckets |-> NoStats, pc |-> "idle",
     op |-> "", err |-> "", resetErr |-> "", taken |-> NoStats, maxSendBytes |-> 0]

(* OpenDataStore, lines 61-78: under the mutex.                            *)
OpenDataStore(openErr) ==
    /\ stats.pc = "idle"
    /\ stats' =
          IF stats.activeDatastoreDB
          THEN [stats EXCEPT !.op = "OpenDataStore", !.err = "db already open"]
          ELSE IF openErr
          THEN [stats EXCEPT !.op = "OpenDataStore", !.err = "open failed"]
          ELSE [stats EXCEPT !.activeDatastoreDB = TRUE, !.pc = "reset",
                             !.op = "", !.err = ""]
    /\ UNCHANGED <<dsVars, obf, hello, dial, lastSet, moreVars>>

(* The transaction of resetAllPersistentStatsToUnreported: every key of    *)
(* every stats bucket is put with the unreported state.                    *)
ResetToUnreported(buckets) ==
    [statType \in StatTypes |->
        [key \in DOMAIN buckets[statType] |-> persistentStatStateUnreported]]

(* OpenDataStore, lines 80-82: the reset, whose error is discarded, and    *)
(* the return of nil.                                                      *)
OpenDataStoreReset(updateErr) ==
    /\ stats.pc = "reset"
    /\ LET resetErr == datastoreUpdateError(stats, updateErr)
       IN  stats' = [stats EXCEPT
                        !.buckets = IF resetErr = "" THEN ResetToUnreported(@) ELSE @,
                        !.resetErr = resetErr,
                        !.pc = "idle",
                        !.op = "OpenDataStore",
                        !.err = ""]
    /\ UNCHANGED <<dsVars, obf, hello, dial, lastSet, moreVars>>

(* CloseDataStore, from another goroutine or at shutdown.                  *)
CloseDataStore ==
    /\ stats' = [stats EXCEPT !.activeDatastoreDB = FALSE,
                              !.op = IF stats.pc = "reset" THEN @ ELSE "CloseDataStore",
                              !.err = IF stats.pc = "reset" THEN @ ELSE ""]
    /\ UNCHANGED <<dsVars, obf, hello, dial, lastSet, moreVars>>

(* StorePersistentStat: a new record is unreported; an unknown type is an  *)
(* error; at maxStoreRecords the record is dropped.  The stats functions   *)
(* are called from other goroutines than the one in OpenDataStore.         *)
StorePersistentStat(statType, stat, maxStoreRecords, updateErr) ==
    /\ LET err == IF statType \notin StatTypes THEN "invalid persistent stat type"
                  ELSE datastoreUpdateError(stats, updateErr)
           full == statType \in StatTypes
                   /\ Cardinality(DOMAIN stats.buckets[statType]) >= maxStoreRecords
       IN  stats' = [stats EXCEPT
                        !.buckets = IF err # "" \/ full THEN @
                                    ELSE [@ EXCEPT ![statType] =
                                             BucketPut(@, stat, persistentStatStateUnreported)],
                        !.taken = NoStats,
                        !.maxSendBytes = 0,
                        !.op = "StorePersistentStat",
                        !.err = err]
    /\ UNCHANGED <<dsVars, obf, hello, dial, lastSet, moreVars>>

(* The cursor loop of TakeOutUnreportedPersistentStats over one bucket,    *)
(* from the i-th key on: the unreported records collected, up to the one   *)
(* with which sendBytes reaches maxSendBytes.                              *)
RECURSIVE takeFrom(_, _, _, _)
takeFrom(bucket, i, sendBytes, maxSendBytes) ==
    IF i > Len(StatKeys) THEN [keys |-> <<>>, sendBytes |-> sendBytes]
    ELSE IF StatKeys[i] \in DOMAIN bucket
            /\ bucket[StatKeys[i]] = persistentStatStateUnreported
    THEN IF sendBytes + StatBytes(StatKeys[i]) >= maxSendBytes
         THEN [keys |-> <<StatKeys[i]>>,
               sendBytes |-> sendBytes + StatBytes(StatKeys[i])]
         ELSE LET rest == takeFrom(bucket, i + 1, sendBytes + StatBytes(StatKeys[i]),
                                   maxSendBytes)
              IN  [keys |-> <<StatKeys[i]>> \o rest.keys, sendBytes |-> rest.sendBytes]
    ELSE takeFrom(bucket, i + 1, sendBytes, maxSendBytes)

(* TakeOutUnreportedPersistentStats: the records taken, by stat type (the  *)
(* types are visited in order, sendBytes running across them).             *)
takeOut(buckets, maxSendBytes) ==
    LET first == takeFrom(buckets[persistentStatTypes[1]], 1, 0, maxSendBytes)
        second == takeFrom(buckets[persistentStatTypes[2]], 1, first.sendBytes,
                           maxSendBytes)
    IN  [statType \in StatTypes |->
            IF statType = persistentStatTypes[1] THEN first.keys ELSE second.keys]

TakeOutUnreportedPersistentStats(maxSendBytes, updateErr) ==
    /\ LET err == datastoreUpdateError(stats, updateErr)
           taken == takeOut(stats.buckets, maxSendBytes)
       IN  stats' = [stats EXCEPT
                        !.buckets =
                            IF err # "" THEN @
                            ELSE [statType \in StatTypes |->
                                    [key \in DOMAIN stats.buckets[statType] |->
                                        IF \E j \in 1..Len(taken[statType]) :
                                               taken[statType][j] = key
                                        THEN persistentStatStateReporting
                                        ELSE stats.buckets[statType][key]]],
                        !.taken = IF err # "" THEN NoStats ELSE taken,
                        !.maxSendBytes = maxSendBytes,
                        !.op = "TakeOutUnreportedPersistentStats",
                        !.err = err]
    /\ UNCHANGED <<dsVars, obf, hello, dial, lastSet, moreVars>>

(* PutBackUnreportedPersistentStats: every key of the given lists is put   *)
(* with the unreported state (dataStore.go 1119-1144).                     *)
PutBackUnreportedPersistentStats(statsToPutBack, updateErr) ==
    /\ LET err == datastoreUpdateError(stats, updateErr)
       IN  stats' = [stats EXCEPT
                        !.buckets =
                            IF err # "" THEN @
                            ELSE [statType \in StatTypes |->
                                    [key \in DOMAIN stats.buckets[statType]
                                              \cup {statsToPutBack[statType][j] :
                                                       j \in 1..Len(statsToPutBack[statType])} |->
                                        IF Contains(statsToPutBack[statType], key)
                                        THEN persistentStatStateUnreported
                                        ELSE stats.buckets[statType][key]]],
                        !.taken = NoStats,
                        !.maxSendBytes = 0,
                        !.op = "PutBackUnreportedPersistentStats",
                        !.err = err]
    /\ UNCHANGED <<dsVars, obf, hello, dial, lastSet, moreVars>>

(* ClearReportedPersistentStats: every key of the given lists is deleted   *)
(* (dataStore.go 1146-1171).                                               *)
ClearReportedPersistentStats(statsToClear, updateErr) ==
    /\ LET err == datastoreUpdateError(stats, updateErr)
       IN  stats' = [stats EXCEPT
                        !.buckets =
                            IF err # "" THEN @
                            ELSE [statType \in StatTypes |->
                                    [key \in {k \in DOMAIN stats.buckets[statType] :
                                                 ~Contains(statsToClear[statType], k)} |->
                                        stats.buckets[statType][key]]],
                        !.taken = NoStats,
                        !.maxSendBytes = 0,
                        !.op = "ClearReportedPersistentStats",
                        !.err = err]
    /\ UNCHANGED <<dsVars, obf, hello, dial, lastSet, moreVars>>

-----------------------------------------------------------------------------
(* datastoreMutex, dataStore.go 54-133: the goroutines that open and close *)
(* the datastore and run its transactions.  writer is the goroutine that   *)
(* holds the mutex after Lock ("": none), readers those that hold it after *)
(* RLock; pc is where each goroutine is and err what its last call         *)
(* returned.                                                               *)

Goroutines == {"g1", "g2", "g3"}

MutexIdle ==
    [writer |-> "", readers |-> {}, pc |-> [g \in Goroutines |-> "idle"],
     err |-> [g \in Goroutines |-> ""]]

(* sync.RWMutex: Lock returns when no goroutine holds the mutex, RLock     *)
(* when no goroutine holds it after Lock.                                  *)
MutLockAsRLock(m) == m.writer = ""

Lock(m) == m.writer = "" /\ m.readers = {}

MutRLockIgnoresWriter(m) == TRUE

RLock(m) == m.writer = ""

(* datastoreDB.update: the database runs one write transaction at a time.  *)
updateEnabled(m) == \A g \in Goroutines : m.pc[g] # "write"

(* OpenDataStore, line 61: datastoreMutex.Lock().                          *)
LockOpenDataStore(g) ==
    /\ mutex.pc[g] = "idle"
    /\ Lock(mutex)
    /\ mutex' = [mutex EXCEPT !.writer = g, !.pc[g] = "open", !.err[g] = ""]
    /\ UNCHANGED <<dsVars, obf, hello, dial, stats, lastSet, rules, params, trafficRules>>

(* OpenDataStore, lines 63-78: the singleton is set unless one is set or   *)
(* datastoreOpenDB fails, and the mutex is unlocked; after a success the   *)
(* goroutine goes on to resetAllPersistentStatsToUnreported (line 80).     *)
UnlockOpenDataStore(g, openErr) ==
    /\ mutex.pc[g] = "open"
    /\ LET err == IF stats.activeDatastoreDB THEN "db already open"
                  ELSE IF openErr THEN "open failed" ELSE ""
       IN  /\ mutex' = [mutex EXCEPT !.writer = "",
                                     !.pc[g] = IF err = "" THEN "reset" ELSE "idle",
                                     !.err[g] = err]
           /\ stats' = IF err = "" THEN [stats EXCEPT !.activeDatastoreDB = TRUE]
                       ELSE stats
    /\ UNCHANGED <<dsVars, obf, hello, dial, lastSet, rules, params, trafficRules>>

(* CloseDataStore, line 88: datastoreMutex.Lock().                         *)
LockCloseDataStore(g) ==
    /\ mutex.pc[g] = "idle"
    /\ Lock(mutex)
    /\ mutex' = [mutex EXCEPT !.writer = g, !.pc[g] = "close", !.err[g] = ""]
    /\ UNCHANGED <<dsVars, obf, hello, dial, stats, lastSet, rules, params, trafficRules>>

(* CloseDataStore, lines 89-100: the singleton is closed and cleared, and  *)
(* the deferred Unlock runs.                                               *)
UnlockCloseDataStore(g) ==
    /\ mutex.pc[g] = "close"
    /\ mutex' = [mutex EXCEPT !.writer = "", !.pc[g] = "idle"]
    /\ stats' = [stats EXCEPT !.activeDatastoreDB = FALSE]
    /\ UNCHANGED <<dsVars, obf, hello, dial, lastSet, rules, params, trafficRules>>

(* datastoreView, lines 105-110: RLock; with no singleton the call returns *)
(* the error and the deferred RUnlock runs; otherwise the goroutine is in  *)
(* activeDatastoreDB.view.                                                 *)
RLockDatastoreView(g) ==
    /\ mutex.pc[g] = "idle"
    /\ RLock(mutex)
    /\ mutex' = IF ~stats.activeDatastoreDB
                THEN [mutex EXCEPT !.err[g] = "database not open"]
                ELSE [mutex EXCEPT !.readers = @ \cup {g}, !.pc[g] = "view",
                                   !.err[g] = ""]
    /\ UNCHANGED <<dsVars, obf, hello, dial, stats, lastSet, rules, params, trafficRules>>

(* datastoreView, lines 112-116: the view returns and RUnlock runs.        *)
RUnlockDatastoreView(g, viewErr) ==
    /\ mutex.pc[g] = "view"
    /\ mutex' = [mutex EXCEPT !.readers = @ \ {g}, !.pc[g] = "idle",
                              !.err[g] = IF viewErr THEN "view failed" ELSE ""]
    /\ UNCHANGED <<dsVars, obf, hello, dial, stats, lastSet, rules, params, trafficRules>>

(* datastoreUpdate, lines 121-126: RLock, as in datastoreView; the caller  *)
(* is any goroutine, or the one that has just opened the datastore.        *)
RLockDatastoreUpdate(g) ==
    /\ mutex.pc[g] \in {"idle", "reset"}
    /\ RLock(mutex)
    /\ mutex' = IF ~stats.activeDatastoreDB
                THEN [mutex EXCEPT !.pc[g] = "idle", !.err[g] = "database not open"]
                ELSE [mutex EXCEPT !.readers = @ \cup {g}, !.pc[g] = "update",
                                   !.err[g] = ""]
    /\ UNCHANGED <<dsVars, obf, hello, dial, stats, lastSet, rules, params, trafficRules>>

(* datastoreUpdate, line 128: the write transaction begins.                *)
BeginUpdate(g) ==
    /\ mutex.pc[g] = "update"
    /\ updateEnabled(mutex)
    /\ mutex' = [mutex EXCEPT !.pc[g] = "write"]
    /\ UNCHANGED <<dsVars, obf, hello, dial, stats, lastSet, rules, params, trafficRules>>

(* datastoreUpdate, lines 128-132: the update returns and RUnlock runs.    *)
RUnlockDatastoreUpdate(g, updateErr) ==
    /\ mutex.pc[g] = "write"
    /\ mutex' = [mutex EXCEPT !.readers = @ \ {g}, !.pc[g] = "idle",
                              !.err[g] = IF updateErr THEN "update failed" ELSE ""]
    /\ UNCHANGED <<dsVars, obf, hello, dial, stats, lastSet, rules, params, trafficRules>>

-----------------------------------------------------------------------------
(* ClientParameters (common/parameters): the parameters a test of          *)
(* clientParameters_test.go overrides, and Set, which that file exercises  *)
(* and the repository defines in clientParameters.go.                      *)

ConnectionWorkerPoolSize == "ConnectionWorkerPoolSize"

InitialLimitTunnelProtocolsCandidateCount == "InitialLimitTunnelProtocolsCandidateCount"

ParameterNames == {ConnectionWorkerPoolSize, InitialLimitTunnelProtocolsCandidateCount}

(* defaultClientParameters: each parameter's default value and minimum.    *)
defaultClientParameters ==
    [name \in ParameterNames |->
        IF name = ConnectionWorkerPoolSize
        THEN [value |-> 10, minimum |-> 1]
        ELSE [value |-> 0, minimum |-> 0]]

(* The values a caller may supply for a parameter: as in TestOverrides,    *)
(* one below the minimum and one above it; and the minimum itself.         *)
ApplyValues(name) ==
    {defaultClientParameters[name].minimum - 1,
     defaultClientParameters[name].minimum,
     defaultClientParameters[name].minimum + 1}

(* The maps a caller may pass as applyParameters: a set of entries with    *)
(* distinct keys.                                                          *)
ApplyParameters ==
    {entries \in SUBSET UNION {[name : {name}, value : ApplyValues(name)] :
                                  name \in ParameterNames} :
        \A e, f \in entries : e.name = f.name => e = f}

ParameterTags == {"tag", "tag2"}

(* The value passes the parameter's minimum check.                         *)
ValidValue(name, value) == value >= defaultClientParameters[name].minimum

(* The orders in which the range over the map may visit its keys.          *)
KeyOrders(applyParameters) ==
    {order \in [1..Cardinality(applyParameters) -> applyParameters] :
        \A i, j \in DOMAIN order : order[i] = order[j] => i = j}

RECURSIVE applyFrom(_, _, _, _, _)
(* The loop of Set over the map's entries from position k of order on,     *)
(* with the new snapshot's values and the count so far: an invalid value   *)
(* is skipped when skipOnError is set, and ends Set with an error when it  *)
(* is not.                                                                 *)
applyFrom(applyParameters, order, k, skipOnError, st) ==
    IF k > Len(order) THEN st
    ELSE LET name == order[k].name
             value == order[k].value
         IN  IF ~ValidValue(name, value)
             THEN IF skipOnError
                  THEN applyFrom(applyParameters, order, k + 1, skipOnError, st)
                  ELSE [st EXCEPT !.err = TRUE]
             ELSE applyFrom(applyParameters, order, k + 1, skipOnError,
                            [st EXCEPT !.values[name] = value, !.count = @ + 1])

(* The snapshot Set publishes: the new one, and the one in place when Set  *)
(* returns an error.                                                       *)
MutPublishOnError(current, tag, st) == [tag |-> tag, values |-> st.values]

publish(current, tag, st) ==
    IF st.err THEN current ELSE [tag |-> tag, values |-> st.values]

(* NewClientParameters(nil): every parameter has its default value and     *)
(* the tag is empty.                                                       *)
ParamsIdle ==
    [snapshot |-> [tag |-> "",
                   values |-> [name \in ParameterNames |->
                                  defaultClientParameters[name].value]],
     op |-> "", tag |-> "", skipOnError |-> FALSE, applyParameters |-> {},
     err |-> FALSE, counts |-> <<>>]

(* Set(tag, skipOnError, applyParameters): the values are applied to a     *)
(* copy of the current snapshot, which replaces it when Set succeeds.      *)
Set(tag, skipOnError, applyParameters) ==
    /\ \E order \in KeyOrders(applyParameters) :
         \E st \in {applyFrom(applyParameters, order, 1, skipOnError,
                              [values |-> params.snapshot.values, count |-> 0,
                               err |-> FALSE])} :
            params' = [snapshot |-> publish(params.snapshot, tag, st),
                       op |-> "Set", tag |-> tag, skipOnError |-> skipOnError,
                       applyParameters |-> applyParameters,
                       err |-> st.err,
                       counts |-> IF st.err THEN <<>> ELSE <<st.count>>]
    /\ UNCHANGED <<dsVars, obf, hello, dial, stats, lastSet, mutex, rules, trafficRules>>

-----------------------------------------------------------------------------
(* Hot reload of a TrafficRulesSet (server/trafficRules.go) and of a psinet *)
(* Database (server/psinet/psinet.go).  Both embed a common.ReloadableFile, *)
(* whose Reload calls the reloadAction given to NewReloadableFile.  A file  *)
(* content is identified by its generation; a field loaded from it holds    *)
(* that generation.                                                         *)

MaxReloads == 2

(* The fields in the order the reloadAction assigns them, trafficRules.go  *)
(* 273-280 and psinet.go 143-147.                                          *)
TrafficRulesSetFields ==
    <<"MeekRateLimiterHistorySize", "MeekRateLimiterThresholdSeconds",
      "MeekRateLimiterRegions", "MeekRateLimiterISPs",
      "MeekRateLimiterGarbageCollectionTriggerCount",
      "MeekRateLimiterReapHistoryFrequencySeconds", "DefaultRules", "FilteredRules">>

DatabaseFields == <<"Hosts", "Servers", "Sponsors", "Versions", "DefaultSponsorID">>

ReloadedFields(kind) ==
    IF kind = "TrafficRulesSet" THEN TrafficRulesSetFields ELSE DatabaseFields

(* The fields a reader reads, in order, between RLock and RUnlock.         *)
ReaderOps(kind) ==
    IF kind = "TrafficRulesSet" THEN {"GetTrafficRules", "GetMeekRateLimiterConfig"}
    ELSE {"GetHomepages", "DiscoverServers"}

ReaderFields(op) ==
    CASE op = "GetTrafficRules" -> <<"DefaultRules", "FilteredRules">>
      [] op = "GetMeekRateLimiterConfig" ->
            <<"MeekRateLimiterGarbageCollectionTriggerCount",
              "MeekRateLimiterReapHistoryFrequencySeconds",
              "MeekRateLimiterHistorySize", "MeekRateLimiterThresholdSeconds",
              "MeekRateLimiterRegions", "MeekRateLimiterISPs">>
      [] op = "GetHomepages" -> <<"Sponsors", "DefaultSponsorID">>
      [] op = "DiscoverServers" -> <<"Servers", "Hosts">>

(* The file contents a reload may find: the generation written, whether it *)
(* parses as JSON and whether Validate accepts it.                         *)
FileContents(generation) ==
    {[generation |-> generation, parses |-> TRUE, valid |-> TRUE],
     [generation |-> generation, parses |-> TRUE, valid |-> FALSE],
     [generation |-> generation, parses |-> FALSE, valid |-> FALSE]}

NoFileContent == [generation |-> 0, parses |-> FALSE, valid |-> FALSE]

(* json.Unmarshal(fileContent, &newSet): every field of the new value      *)
(* comes from the file.                                                    *)
UnmarshalFile(kind, fileContent) ==
    [name \in {ReloadedFields(kind)[i] : i \in 1..Len(ReloadedFields(kind))} |->
        fileContent.generation]

(* The error of the reloadAction before it modifies anything: Unmarshal,   *)
(* and for a TrafficRulesSet Validate (trafficRules.go 262-270).           *)
reloadActionError(kind, fileContent) ==
    IF ~fileContent.parses THEN "unmarshal failed"
    ELSE IF kind = "TrafficRulesSet" /\ ~fileContent.valid THEN "invalid"
    ELSE ""

Readers == {"r1", "r2"}

NoReader == [pc |-> "idle", op |-> "", seen |-> <<>>]

(* The object NewTrafficRulesSet or NewDatabase returns: the first Reload  *)
(* has loaded generation 0.                                                *)
NewReloadable(kind) ==
    [kind |-> kind,
     fields |-> UnmarshalFile(kind, [generation |-> 0, parses |-> TRUE, valid |-> TRUE]),
     writer |-> FALSE, readers |-> {},
     pc |-> "idle", fileContent |-> NoFileContent, assigned |-> 0, err |-> "",
     reloads |-> 0,
     reader |-> [r \in Readers |-> NoReader]]

RulesIdle == NewReloadable("TrafficRulesSet")

(* ReloadableFile.Lock in Reload, and the RLock of the readers             *)
(* (trafficRules.go 377, 622; psinet.go 179, 293).                         *)
LockReloadableFile(f) == ~f.writer /\ f.readers = {}

MutNoRLock(f) == TRUE

RLockReloadableFile(f) == ~f.writer

(* Reload: the changed file has been read and the write lock is taken.     *)
ReloadLock(fileContent) ==
    /\ rules.pc = "idle"
    /\ rules.reloads < MaxReloads
    /\ LockReloadableFile(rules)
    /\ rules' = [rules EXCEPT !.writer = TRUE, !.pc = "action",
                              !.fileContent = fileContent, !.assigned = 0,
                              !.err = "", !.reloads = @ + 1]
    /\ UNCHANGED <<dsVars, obf, hello, dial, stats, lastSet, mutex, params, trafficRules>>

(* The reloadAction: it fails before modifying anything, or assigns the    *)
(* next field from the new value.                                          *)
ReloadAction ==
    /\ rules.pc = "action"
    /\ LET err == reloadActionError(rules.kind, rules.fileContent)
           names == ReloadedFields(rules.kind)
           newSet == UnmarshalFile(rules.kind, rules.fileContent)
       IN  IF err # ""
           THEN rules' = [rules EXCEPT !.pc = "unlock", !.err = err]
           ELSE rules' = [rules EXCEPT
                            !.fields[names[rules.assigned + 1]] =
                                newSet[names[rules.assigned + 1]],
                            !.assigned = @ + 1,
                            !.pc = IF rules.assigned + 1 = Len(names)
                                   THEN "unlock" ELSE "action"]
    /\ UNCHANGED <<dsVars, obf, hello, dial, stats, lastSet, mutex, params, trafficRules>>

(* Reload returns: the deferred Unlock.                                    *)
ReloadUnlock ==
    /\ rules.pc = "unlock"
    /\ rules' = [rules EXCEPT !.writer = FALSE, !.pc = "idle"]
    /\ UNCHANGED <<dsVars, obf, hello, dial, stats, lastSet, mutex, params, trafficRules>>

(* A reader: RLock, the reads of its fields, and the deferred RUnlock.     *)
ReaderRLock(r, op) ==
    /\ rules.reader[r].pc = "idle"
    /\ op \in ReaderOps(rules.kind)
    /\ RLockReloadableFile(rules)
    /\ rules' = [rules EXCEPT !.readers = @ \cup {r},
                              !.reader[r] = [pc |-> "reading", op |-> op, seen |-> <<>>]]
    /\ UNCHANGED <<dsVars, obf, hello, dial, stats, lastSet, mutex, params, trafficRules>>

ReaderRead(r) ==
    /\ rules.reader[r].pc = "reading"
    /\ Len(rules.reader[r].seen) < Len(ReaderFields(rules.reader[r].op))
    /\ rules' = [rules EXCEPT
                   !.reader[r].seen =
                       Append(@, rules.fields[ReaderFields(rules.reader[r].op)[Len(@) + 1]])]
    /\ UNCHANGED <<dsVars, obf, hello, dial, stats, lastSet, mutex, params, trafficRules>>

ReaderRUnlock(r) ==
    /\ rules.reader[r].pc = "reading"
    /\ Len(rules.reader[r].seen) = Len(ReaderFields(rules.reader[r].op))
    /\ rules' = [rules EXCEPT !.readers = @ \ {r}, !.reader[r].pc = "idle"]
    /\ UNCHANGED <<dsVars, obf, hello, dial, stats, lastSet, mutex, params, trafficRules>>

-----------------------------------------------------------------------------
(* The content of a TrafficRulesSet: GetTrafficRules and the reloadAction  *)
(* of NewTrafficRulesSet (server/trafficRules.go).  A pointer field is Nil *)
(* or <<v>>; a slice or map field is Nil or <<the list>>, so that an empty *)
(* list of the JSON file is not the omitted field.  The RateLimits struct  *)
(* is flattened into the TrafficRules, the field names being distinct.     *)

DEFAULT_IDLE_TCP_PORT_FORWARD_TIMEOUT_MILLISECONDS == 30000

DEFAULT_IDLE_UDP_PORT_FORWARD_TIMEOUT_MILLISECONDS == 30000

DEFAULT_DIAL_TCP_PORT_FORWARD_TIMEOUT_MILLISECONDS == 10000

DEFAULT_MAX_TCP_DIALING_PORT_FORWARD_COUNT == 64

DEFAULT_MAX_TCP_PORT_FORWARD_COUNT == 512

DEFAULT_MAX_UDP_PORT_FORWARD_COUNT == 32

Nil == <<>>

Int64Fields ==
    {"ReadUnthrottledBytes", "ReadBytesPerSecond", "WriteUnthrottledBytes",
     "WriteBytesPerSecond"}

BoolFields == {"CloseAfterExhausted", "UnthrottleFirstTunnelOnly"}

IntFields ==
    {"DialTCPPortForwardTimeoutMilliseconds", "IdleTCPPortForwardTimeoutMilliseconds",
     "IdleUDPPortForwardTimeoutMilliseconds", "MaxTCPDialingPortForwardCount",
     "MaxTCPPortForwardCount", "MaxUDPPortForwardCount"}

SliceFields == {"AllowTCPPorts", "AllowUDPPorts", "AllowSubnets"}

TrafficRulesFields == Int64Fields \cup BoolFields \cup IntFields \cup SliceFields

(* The value GetTrafficRules gives a field DefaultRules omits              *)
(* (trafficRules.go 398-460).                                              *)
builtInDefault(name) ==
    CASE name \in Int64Fields -> 0
      [] name \in BoolFields -> FALSE
      [] name = "DialTCPPortForwardTimeoutMilliseconds" ->
            DEFAULT_DIAL_TCP_PORT_FORWARD_TIMEOUT_MILLISECONDS
      [] name = "IdleTCPPortForwardTimeoutMilliseconds" ->
            DEFAULT_IDLE_TCP_PORT_FORWARD_TIMEOUT_MILLISECONDS
      [] name = "IdleUDPPortForwardTimeoutMilliseconds" ->
            DEFAULT_IDLE_UDP_PORT_FORWARD_TIMEOUT_MILLISECONDS
      [] name = "MaxTCPDialingPortForwardCount" ->
            DEFAULT_MAX_TCP_DIALING_PORT_FORWARD_COUNT
      [] name = "MaxTCPPortForwardCount" -> DEFAULT_MAX_TCP_PORT_FORWARD_COUNT
      [] name = "MaxUDPPortForwardCount" -> DEFAULT_MAX_UDP_PORT_FORWARD_COUNT
      [] name \in SliceFields -> <<>>

(* A TrafficRules the JSON file says nothing about.                        *)
Omitted == [name \in TrafficRulesFields |-> Nil]

(* net.ParseCIDR on an IPv4 subnet: four octets, a slash and a prefix      *)
(* length of at most 32 bits.                                              *)
ParseCIDR(subnet) ==
    /\ subnet.slash
    /\ Len(subnet.address) = 4
    /\ \A i \in 1..Len(subnet.address) : subnet.address[i] \in 0..255
    /\ subnet.bits \in 0..32

(* validateTrafficRules, trafficRules.go 308-332.                          *)
validateTrafficRules(trafficRulesValue) ==
    /\ \A name \in Int64Fields \cup IntFields :
          trafficRulesValue[name] # Nil => trafficRulesValue[name][1] >= 0
    /\ trafficRulesValue["AllowSubnets"] # Nil =>
          \A i \in 1..Len(trafficRulesValue["AllowSubnets"][1]) :
              ParseCIDR(trafficRulesValue["AllowSubnets"][1][i])

(* The names of baseRequestParams, which Validate accepts in a filter.     *)
baseRequestParams == {"client_version", "propagation_channel_id", "sponsor_id"}

(* TrafficRulesSet.Validate, trafficRules.go 293-366.                      *)
Validate(set) ==
    /\ ~(\/ set.MeekRateLimiterHistorySize < 0
         \/ set.MeekRateLimiterThresholdSeconds < 0
         \/ set.MeekRateLimiterGarbageCollectionTriggerCount < 0
         \/ set.MeekRateLimiterReapHistoryFrequencySeconds < 0)
    /\ set.MeekRateLimiterHistorySize > 0 => ~(set.MeekRateLimiterThresholdSeconds <= 0)
    /\ validateTrafficRules(set.DefaultRules)
    /\ \A i \in 1..Len(set.FilteredRules) :
          /\ set.FilteredRules[i].Filter.HandshakeParameters # Nil =>
                \A p \in set.FilteredRules[i].Filter.HandshakeParameters[1] :
                    p.name \in baseRequestParams
          /\ validateTrafficRules(set.FilteredRules[i].Rules)

(* common.ContainsWildcard for the patterns used here: a pattern is the    *)
(* target itself or the lone wildcard.                                     *)
ContainsWildcard(patterns, target) ==
    \E i \in 1..Len(patterns) : patterns[i] = "*" \/ patterns[i] = target

(* common.ContainsAny.                                                     *)
ContainsAny(list, targets) == \E i \in 1..Len(targets) : Contains(list, targets[i])

(* One pass of the loop body up to "filter match": no continue was taken   *)
(* (trafficRules.go 467-540).                                              *)
filterMatches(filter, tunnelProtocol, geoIPData, state) ==
    /\ Len(filter.TunnelProtocols) > 0 => Contains(filter.TunnelProtocols, tunnelProtocol)
    /\ Len(filter.Regions) > 0 => Contains(filter.Regions, geoIPData.Country)
    /\ Len(filter.ISPs) > 0 => Contains(filter.ISPs, geoIPData.ISP)
    /\ filter.APIProtocol # "" =>
          state.completed /\ state.apiProtocol = filter.APIProtocol
    /\ filter.HandshakeParameters # Nil =>
          /\ state.completed
          /\ \A p \in filter.HandshakeParameters[1] :
                \E q \in state.apiParams :
                    q.name = p.name /\ ContainsWildcard(p.values, q.value)
    /\ IF filter.AuthorizationsRevoked
       THEN state.completed /\ state.authorizationsRevoked
       ELSE Len(filter.AuthorizedAccessTypes) > 0 =>
               /\ state.completed
               /\ ~state.authorizationsRevoked
               /\ ContainsAny(filter.AuthorizedAccessTypes, state.authorizedAccessTypes)

(* The element of FilteredRules the loop breaks at, 0 when it runs to the  *)
(* end of the list.                                                        *)
MutLastMatch(set, tunnelProtocol, geoIPData, state) ==
    LET matching == {i \in 1..Len(set.FilteredRules) :
                        filterMatches(set.FilteredRules[i].Filter,
                                      tunnelProtocol, geoIPData, state)}
    IN  IF matching = {} THEN 0 ELSE CHOOSE i \in matching : \A j \in matching : j <= i

firstMatch(set, tunnelProtocol, geoIPData, state) ==
    LET matching == {i \in 1..Len(set.FilteredRules) :
                        filterMatches(set.FilteredRules[i].Filter,
                                      tunnelProtocol, geoIPData, state)}
    IN  IF matching = {} THEN 0 ELSE CHOOSE i \in matching : \A j \in matching : i <= j

(* GetTrafficRules, trafficRules.go 368-616: the copy of DefaultRules with *)
(* its omitted fields populated, the fields the first matching element     *)
(* specifies, and the unthrottled bytes of a later tunnel of the session.  *)
GetTrafficRulesResult(set, isFirstTunnelInSession, tunnelProtocol, geoIPData, state) ==
    LET populated == [name \in TrafficRulesFields |->
                         IF set.DefaultRules[name] = Nil
                         THEN <<builtInDefault(name)>> ELSE set.DefaultRules[name]]
        index == firstMatch(set, tunnelProtocol, geoIPData, state)
        selected == [name \in TrafficRulesFields |->
                        IF index # 0 /\ set.FilteredRules[index].Rules[name] # Nil
                        THEN set.FilteredRules[index].Rules[name]
                        ELSE populated[name]]
    IN  IF selected["UnthrottleFirstTunnelOnly"][1] /\ ~isFirstTunnelInSession
        THEN [selected EXCEPT !["ReadUnthrottledBytes"] = <<0>>,
                              !["WriteUnthrottledBytes"] = <<0>>]
        ELSE selected

(* The reloadAction of NewTrafficRulesSet, trafficRules.go 261-283: the    *)
(* set and the error it returns.                                           *)
MutAssignBeforeValidate(set, fileContent) ==
    IF ~fileContent.parses THEN [set |-> set, err |-> "unmarshal"]
    ELSE [set |-> fileContent.newSet,
          err |-> IF Validate(fileContent.newSet) THEN "" ELSE "validate"]

reloadAction(set, fileContent) ==
    IF ~fileContent.parses THEN [set |-> set, err |-> "unmarshal"]
    ELSE IF ~Validate(fileContent.newSet) THEN [set |-> set, err |-> "validate"]
    ELSE [set |-> [MeekRateLimiterHistorySize |->
                       fileContent.newSet.MeekRateLimiterHistorySize,
                   MeekRateLimiterThresholdSeconds |->
                       fileContent.newSet.MeekRateLimiterThresholdSeconds,
                   MeekRateLimiterRegions |-> fileContent.newSet.MeekRateLimiterRegions,
                   MeekRateLimiterISPs |-> fileContent.newSet.MeekRateLimiterISPs,
                   MeekRateLimiterGarbageCollectionTriggerCount |->
                       fileContent.newSet.MeekRateLimiterGarbageCollectionTriggerCount,
                   MeekRateLimiterReapHistoryFrequencySeconds |->
                       fileContent.newSet.MeekRateLimiterReapHistoryFrequencySeconds,
                   DefaultRules |-> fileContent.newSet.DefaultRules,
                   FilteredRules |-> fileContent.newSet.FilteredRules],
          err |-> ""]

(* The rules, filters and file contents the traffic rules model draws      *)
(* from: valid ones, and one of each kind Validate rejects.                *)
RulesA ==
    [Omitted EXCEPT !["ReadUnthrottledBytes"] = <<100>>,
                    !["WriteUnthrottledBytes"] = <<100>>,
                    !["UnthrottleFirstTunnelOnly"] = <<TRUE>>,
                    !["MaxTCPPortForwardCount"] = <<0>>,
                    !["AllowSubnets"] =
                        <<<<[address |-> <<10, 0, 0, 0>>, slash |-> TRUE, bits |-> 8]>>>>]

RulesB ==
    [Omitted EXCEPT !["ReadUnthrottledBytes"] = <<50>>,
                    !["UnthrottleFirstTunnelOnly"] = <<FALSE>>,
                    !["AllowTCPPorts"] = <<<<443>>>>]

RulesC ==
    [Omitted EXCEPT !["ReadBytesPerSecond"] = <<7>>,
                    !["CloseAfterExhausted"] = <<TRUE>>,
                    !["AllowTCPPorts"] = <<<<>>>>]

RulesNegative == [Omitted EXCEPT !["MaxUDPPortForwardCount"] = <<-1>>]

RulesBadSubnet ==
    [Omitted EXCEPT !["AllowSubnets"] =
                        <<<<[address |-> <<10, 0, 0, 0>>, slash |-> TRUE, bits |-> 33]>>>>]

NoFilter ==
    [TunnelProtocols |-> <<>>, Regions |-> <<>>, ISPs |-> <<>>, APIProtocol |-> "",
     HandshakeParameters |-> Nil, AuthorizedAccessTypes |-> <<>>,
     AuthorizationsRevoked |-> FALSE]

FilteredRulesLists ==
    {<<>>,
     <<[Filter |-> [NoFilter EXCEPT !.Regions = <<"CA">>], Rules |-> RulesB],
       [Filter |-> NoFilter, Rules |-> RulesA],
       [Filter |-> NoFilter, Rules |-> RulesC]>>,
     <<[Filter |-> [NoFilter EXCEPT !.APIProtocol = "web"], Rules |-> RulesC],
       [Filter |-> [NoFilter EXCEPT !.AuthorizationsRevoked = TRUE], Rules |-> RulesB],
       [Filter |-> [NoFilter EXCEPT !.AuthorizedAccessTypes = <<"premium">>],
        Rules |-> RulesA]>>,
     <<[Filter |-> [NoFilter EXCEPT
                      !.HandshakeParameters =
                          <<{[name |-> "client_version", values |-> <<"1", "2">>]}>>],
        Rules |-> RulesA],
       [Filter |-> [NoFilter EXCEPT !.TunnelProtocols = <<"SSH">>, !.ISPs = <<"isp1">>],
        Rules |-> RulesB]>>,
     <<[Filter |-> [NoFilter EXCEPT
                      !.HandshakeParameters =
                          <<{[name |-> "no_such_param", values |-> <<"*">>]}>>],
        Rules |-> RulesB]>>,
     <<[Filter |-> NoFilter, Rules |-> RulesBadSubnet]>>}

NewSets ==
    {[MeekRateLimiterHistorySize |-> meek[1],
      MeekRateLimiterThresholdSeconds |-> meek[2],
      MeekRateLimiterRegions |-> <<>>,
      MeekRateLimiterISPs |-> <<>>,
      MeekRateLimiterGarbageCollectionTriggerCount |-> meek[3],
      MeekRateLimiterReapHistoryFrequencySeconds |-> 0,
      DefaultRules |-> defaultRules,
      FilteredRules |-> filteredRules] :
        meek \in {<<0, 0, 0>>, <<1, 1, 0>>, <<1, 0, 0>>, <<0, 0, -1>>},
        defaultRules \in {Omitted, RulesA, RulesNegative},
        filteredRules \in FilteredRulesLists}

TrafficRulesFiles ==
    {[parses |-> TRUE, newSet |-> newSet] : newSet \in NewSets}
        \cup {[parses |-> FALSE, newSet |-> CHOOSE newSet \in NewSets : TRUE]}

(* The attributes of the client GetTrafficRules is called for.             *)
HandshakeStates ==
    {[completed |-> FALSE, apiProtocol |-> "", apiParams |-> {},
      authorizationsRevoked |-> FALSE, authorizedAccessTypes |-> <<>>],
     [completed |-> TRUE, apiProtocol |-> "web", apiParams |-> {},
      authorizationsRevoked |-> FALSE, authorizedAccessTypes |-> <<>>],
     [completed |-> TRUE, apiProtocol |-> "ssh",
      apiParams |-> {[name |-> "client_version", value |-> "2"]},
      authorizationsRevoked |-> FALSE, authorizedAccessTypes |-> <<"premium">>],
     [completed |-> TRUE, apiProtocol |-> "ssh",
      apiParams |-> {[name |-> "client_version", value |-> "3"]},
      authorizationsRevoked |-> TRUE, authorizedAccessTypes |-> <<"premium">>]}

GetTrafficRulesArgs ==
    [isFirstTunnelInSession : BOOLEAN, tunnelProtocol : {"SSH", "OSSH"},
     geoIPData : {[Country |-> "CA", ISP |-> "isp1"], [Country |-> "US", ISP |-> "isp2"]},
     state : HandshakeStates]

NoTrafficRulesFile == CHOOSE f \in TrafficRulesFiles : ~f.parses

NoGetTrafficRulesArgs == CHOOSE args \in GetTrafficRulesArgs : TRUE

(* The set NewTrafficRulesSet returns for a given file: the first Reload,  *)
(* on the zero value &TrafficRulesSet{}, succeeded.                        *)
NewTrafficRulesSet(fileContent) ==
    [set |-> reloadAction([MeekRateLimiterHistorySize |-> 0,
                           MeekRateLimiterThresholdSeconds |-> 0,
                           MeekRateLimiterRegions |-> <<>>,
                           MeekRateLimiterISPs |-> <<>>,
                           MeekRateLimiterGarbageCollectionTriggerCount |-> 0,
                           MeekRateLimiterReapHistoryFrequencySeconds |-> 0,
                           DefaultRules |-> Omitted,
                           FilteredRules |-> <<>>], fileContent).set,
     op |-> "", err |-> "", fileContent |-> NoTrafficRulesFile,
     args |-> NoGetTrafficRulesArgs, result |-> Omitted]

TrafficRulesIdle ==
    NewTrafficRulesSet(CHOOSE f \in TrafficRulesFiles : reloadAction(f.newSet, f).err = "")

(* Reload: the file changed; its content goes through the reloadAction.    *)
(* The variable keeps the set and the last call on it only.                *)
ReloadTrafficRules(fileContent) ==
    /\ \E reloaded \in {reloadAction(trafficRules.set, fileContent)} :
          trafficRules' = [set |-> reloaded.set, op |-> "Reload", err |-> reloaded.err,
                           fileContent |-> fileContent,
                           args |-> NoGetTrafficRulesArgs, result |-> Omitted]
    /\ UNCHANGED <<dsVars, obf, hello, dial, stats, lastSet, mutex, rules, params>>

(* GetTrafficRules: the result is a copy; the set is only read.            *)
GetTrafficRules(args) ==
    /\ trafficRules' =
          [trafficRules EXCEPT
             !.op = "GetTrafficRules", !.err = "", !.args = args,
             !.fileContent = NoTrafficRulesFile,
             !.result = GetTrafficRulesResult(trafficRules.set,
                                              args.isFirstTunnelInSession,
                                              args.tunnelProtocol, args.geoIPData,
                                              args.state)]
    /\ UNCHANGED <<dsVars, obf, hello, dial, stats, lastSet, mutex, rules, params>>

-----------------------------------------------------------------------------
(* The components that have a specification of their own start idle.       *)
InitMore ==
    /\ mutex = MutexIdle
    /\ rules = RulesIdle
    /\ params = ParamsIdle
    /\ trafficRules = TrafficRulesIdle

-----------------------------------------------------------------------------
(* The datastore specification.  The store a process opens may hold        *)
(* records left by earlier runs, some of them corrupt.                     *)

EmptyBucket == [k \in {} |-> NilData]

(* The datastore after OpenDataStore returned nil.                         *)
OpenedDataStore == [StatsIdle EXCEPT !.activeDatastoreDB = TRUE, !.op = "OpenDataStore"]

InitialStores ==
    {EmptyBucket, [ip \in {"c"} |-> CorruptData]}

Init ==
    /\ serverEntries \in InitialStores
    /\ keyValues = EmptyBucket
    /\ dialParameters = EmptyBucket
    /\ iterator = NoIterator
    /\ ret = NoRet
    /\ yielded = <<>>
    /\ storeTouched = FALSE
    /\ obf = ObfIdle
    /\ hello = HelloIdle
    /\ dial = DialIdle
    /\ stats = OpenedDataStore
    /\ lastSet = EmptyBucket
    /\ InitMore

(* Server entries may be stored at any time; the affinity and dial         *)
(* parameter writers run before the caller constructs its iterator.        *)
Next ==
    \/ \E ip \in IF iterator.kind = "none" THEN IPs ELSE LateIPs :
             StoreServerEntry([ip |-> ip, ver |-> 0, tag |-> "x", valid |-> TRUE], TRUE)
    \/ /\ iterator.kind = "none"
       /\ \E config \in {c \in Configs : c.target = "" /\ c.replayCount = 0}, ip \in IPs :
             PromoteServerEntry(config, ip, "")
    \/ /\ iterator.kind = "none"
       /\ \E ip \in IPs, networkID \in NetworkIDs, dp \in DialParamValues :
             SetDialParameters(ip, networkID, dp)
    \/ /\ iterator.kind = "none"
       /\ \E ip \in IPs, networkID \in NetworkIDs : DeleteDialParameters(ip, networkID)
    \/ \E config \in Configs : NewServerEntryIterator(config)
    \/ Reset
    \/ IteratorNext

Spec == Init /\ [][Next]_vars

(* The store alone, under every StoreServerEntry input.                    *)
NextStore ==
    \E e \in ServerEntryFields, replaceIfExists \in BOOLEAN :
        StoreServerEntry(e, replaceIfExists)

SpecStore == Init /\ [][NextStore]_vars

(* The obfuscator alone: one connection, from the construction of the      *)
(* client (or the bytes of another peer) to the data that follows the      *)
(* seed message.                                                           *)
InitObf ==
    /\ serverEntries = EmptyBucket
    /\ keyValues = EmptyBucket
    /\ dialParameters = EmptyBucket
    /\ iterator = NoIterator
    /\ ret = NoRet
    /\ yielded = <<>>
    /\ storeTouched = FALSE
    /\ obf = ObfIdle
    /\ hello = HelloIdle
    /\ dial = DialIdle
    /\ stats = StatsIdle
    /\ lastSet = EmptyBucket
    /\ InitMore

NextObf ==
    \/ \E config \in ObfuscatorConfigs : NewClientObfuscator(config)
    \/ SendSeedMessage
    \/ \E keyword \in Keywords, magic \in MagicFields, length \in LengthFields :
           \E n \in PeerPaddingLengths(length) :
               PeerWritesSeedMessage(keyword, [i \in 1..OBFUSCATE_SEED_LENGTH |-> i],
                                     magic, length, n)
    \/ \E n \in ShortLengths : PeerWritesShort(n)
    \/ \E keyword \in Keywords, newSeed \in GeneratedSeeds :
           NewServerObfuscator([NoConfig EXCEPT !.Keyword = keyword], newSeed)
    \/ \E buffer \in Buffers : TransferClientToServer(buffer)
    \/ \E buffer \in Buffers : TransferServerToClient(buffer)

SpecObf == InitObf /\ [][NextObf]_vars

(* The dial parameters alone.  Server IP addresses and network ids are     *)
(* strings of any length: "a" with "bn" and "ab" with "n" concatenate to   *)
(* the same key.                                                           *)
DialParameterIPs == {"a", "ab"}

DialParameterNetworkIDs == {"bn", "n"}

InitDialParameters ==
    /\ serverEntries = EmptyBucket
    /\ keyValues = EmptyBucket
    /\ dialParameters = EmptyBucket
    /\ iterator = NoIterator
    /\ ret = NoRet
    /\ yielded = <<>>
    /\ storeTouched = FALSE
    /\ obf = ObfIdle
    /\ hello = HelloIdle
    /\ dial = DialIdle
    /\ stats = OpenedDataStore
    /\ lastSet = EmptyBucket
    /\ InitMore

NextDialParameters ==
    \/ \E ip \in DialParameterIPs, networkID \in DialParameterNetworkIDs,
          dp \in DialParameterRecords : SetDialParameters(ip, networkID, dp)
    \/ \E ip \in DialParameterIPs, networkID \in DialParameterNetworkIDs :
           GetDialParameters(ip, networkID)
    \/ \E ip \in DialParameterIPs, networkID \in DialParameterNetworkIDs :
           DeleteDialParameters(ip, networkID)

SpecDialParameters == InitDialParameters /\ [][NextDialParameters]_vars

(* ClientHello assembly alone: two UConns with the same ClientHelloID and  *)
(* seed, each assembling its ClientHello once.                             *)
InitHello == InitObf

NextHello ==
    \/ \E id \in RandomizedHelloIDs, nextProtos \in ConfigNextProtos,
          seed \in {NilSeed} \cup {<<r>> : r \in ClientHelloSeeds} :
           UClient(id, seed, nextProtos)
    \/ \E flipCoin \in BOOLEAN : BuildFirst(flipCoin)
    \/ \E flipCoin \in BOOLEAN : BuildSecond(flipCoin)

SpecHello == InitHello /\ [][NextHello]_vars

(* One CustomTLSDial call under every configuration, with its handshake    *)
(* goroutine, the server's certificates and the caller's cancellation.     *)
InitDial == InitObf

NextDial ==
    \/ /\ dial.pc = "idle"
       /\ \E config \in DialConfigs : \E env \in DialEnvs(config) :
              CustomTLSDial(config, env)
    \/ CancelContext
    \/ \E certs \in PeerCertificateLists, networkErr \in BOOLEAN :
           Handshake(certs, networkErr)
    \/ SelectResult
    \/ SelectContextDone
    \/ JoinGoroutine

SpecDial == InitDial /\ [][NextDial]_vars

(* The same call under the scheduling the Go runtime gives it: a select    *)
(* with a ready case proceeds, a receive from a channel on which a sender  *)
(* waits proceeds, and a Handshake pending on a closed raw connection      *)
(* returns.  A Handshake on an open connection may stay pending forever.   *)
SpecDialLive ==
    /\ InitDial
    /\ [][NextDial]_vars
    /\ WF_vars(SelectResult \/ SelectContextDone)
    /\ WF_vars(JoinGoroutine)
    /\ WF_vars(/\ dial.rawConn = "closed"
               /\ \E certs \in PeerCertificateLists, networkErr \in BOOLEAN :
                      Handshake(certs, networkErr))

(* The persistent stats alone: a process starts on the buckets an earlier  *)
(* process left, opens the datastore, stores and takes out stats, and may  *)
(* close the datastore at any time.                                        *)
MaxSendBytes == {3, 100}

MaxStoreRecords == {1, 10}

(* The lists a caller passes to PutBack and Clear: by stat type, some of   *)
(* the records in cursor order.                                            *)
StatLists == [StatTypes -> {<<>>, <<"s1">>, <<"s1", "s2">>}]

InitStats ==
    /\ serverEntries = EmptyBucket
    /\ keyValues = EmptyBucket
    /\ dialParameters = EmptyBucket
    /\ iterator = NoIterator
    /\ ret = NoRet
    /\ yielded = <<>>
    /\ storeTouched = FALSE
    /\ obf = ObfIdle
    /\ hello = HelloIdle
    /\ dial = DialIdle
    /\ stats \in {[StatsIdle EXCEPT !.buckets = buckets] : buckets \in InitialStats}
    /\ lastSet = EmptyBucket
    /\ InitMore

NextStats ==
    \/ \E openErr \in BOOLEAN : OpenDataStore(openErr)
    \/ \E updateErr \in BOOLEAN : OpenDataStoreReset(updateErr)
    \/ CloseDataStore
    \/ \E statType \in StatTypes \cup {"other"}, i \in 1..Len(StatKeys),
          maxStoreRecords \in MaxStoreRecords, updateErr \in BOOLEAN :
           StorePersistentStat(statType, StatKeys[i], maxStoreRecords, updateErr)
    \/ \E maxSendBytes \in MaxSendBytes, updateErr \in BOOLEAN :
           TakeOutUnreportedPersistentStats(maxSendBytes, updateErr)
    \/ \E statsToPutBack \in StatLists, updateErr \in BOOLEAN :
           PutBackUnreportedPersistentStats(statsToPutBack, updateErr)
    \/ \E statsToClear \in StatLists, updateErr \in BOOLEAN :
           ClearReportedPersistentStats(statsToClear, updateErr)

SpecStats == InitStats /\ [][NextStats]_vars

(* The singleton datastore through its life: a process starts with the     *)
(* datastore closed, on the file an earlier run left; it opens and closes  *)
(* the datastore at any time while other goroutines store and promote      *)
(* server entries and construct and use iterators of both kinds (a         *)
(* tactics iterator does not consult EgressRegion, which is left empty).   *)
LifecycleConfigs ==
    {c \in Configs : /\ c.replayCount = 0 /\ c.limitTunnelProtocols = {}
                     /\ c.target \in {"", "tt"}}

(* A server in the US that supports tactics, and one in CA that does not.  *)
LifecycleIPs == {"b", "c"}

(* The key-value bucket an earlier run left: empty, or an affinity id      *)
(* whose server entry record is missing (the condition Next guards         *)
(* against at lines 644-649), promoted under the unconstrained filter.     *)
StaleAffinityID == "a"

InitialKeyValues ==
    {EmptyBucket,
     [k \in {AffinityKey, FilterKey} |-> IF k = AffinityKey THEN StaleAffinityID ELSE ""]}

InitDataStore ==
    /\ serverEntries \in InitialStores
    /\ keyValues \in InitialKeyValues
    /\ dialParameters = EmptyBucket
    /\ iterator = NoIterator
    /\ ret = NoRet
    /\ yielded = <<>>
    /\ storeTouched = FALSE
    /\ obf = ObfIdle
    /\ hello = HelloIdle
    /\ dial = DialIdle
    /\ stats = StatsIdle
    /\ lastSet = EmptyBucket
    /\ InitMore

NextDataStore ==
    \/ \E openErr \in BOOLEAN : OpenDataStore(openErr)
    \/ OpenDataStoreReset(FALSE)
    \/ CloseDataStore
    \/ \E ip \in LifecycleIPs :
           StoreServerEntry([ip |-> ip, ver |-> 0, tag |-> "x", valid |-> TRUE], TRUE)
    \/ \E config \in {c \in LifecycleConfigs : c.target = ""}, ip \in LifecycleIPs :
           PromoteServerEntry(config, ip, "")
    \/ \E config \in LifecycleConfigs : NewServerEntryIterator(config)
    \/ \E config \in {c \in LifecycleConfigs : c.region = ""} :
           NewTacticsServerEntryIterator(config)
    \/ Reset
    \/ IteratorNext

SpecDataStore == InitDataStore /\ [][NextDataStore]_vars

(* Server affinity: on an open datastore whose file may hold an affinity   *)
(* id with no record, entries are stored and promoted (known and unknown   *)
(* ids, with either put of the transaction failing) while an iterator is   *)
(* constructed and used.                                                   *)
AffinityConfigs ==
    {c \in Configs : /\ c.replayCount = 0 /\ c.limitTunnelProtocols = {}
                     /\ c.target = ""}

InitAffinity ==
    /\ serverEntries \in InitialStores
    /\ keyValues \in InitialKeyValues
    /\ dialParameters = EmptyBucket
    /\ iterator = NoIterator
    /\ ret = NoRet
    /\ yielded = <<>>
    /\ storeTouched = FALSE
    /\ obf = ObfIdle
    /\ hello = HelloIdle
    /\ dial = DialIdle
    /\ stats = OpenedDataStore
    /\ lastSet = EmptyBucket
    /\ InitMore

NextAffinity ==
    \/ \E ip \in LifecycleIPs :
           StoreServerEntry([ip |-> ip, ver |-> 0, tag |-> "x", valid |-> TRUE], TRUE)
    \/ \E config \in AffinityConfigs, ip \in IPs, putErr \in PutErrors :
           PromoteServerEntry(config, ip, putErr)
    \/ \E config \in AffinityConfigs : NewServerEntryIterator(config)
    \/ Reset
    \/ IteratorNext

SpecAffinity == InitAffinity /\ [][NextAffinity]_vars

(* ClientParameters alone: Set is called at any time with any tag, either  *)
(* value of skipOnError and any map of valid and invalid values.           *)
InitParameters ==
    /\ serverEntries = EmptyBucket
    /\ keyValues = EmptyBucket
    /\ dialParameters = EmptyBucket
    /\ iterator = NoIterator
    /\ ret = NoRet
    /\ yielded = <<>>
    /\ storeTouched = FALSE
    /\ obf = ObfIdle
    /\ hello = HelloIdle
    /\ dial = DialIdle
    /\ stats = StatsIdle
    /\ lastSet = EmptyBucket
    /\ InitMore

NextParameters ==
    \E tag \in ParameterTags, skipOnError \in BOOLEAN,
       applyParameters \in ApplyParameters :
        Set(tag, skipOnError, applyParameters)

SpecParameters == InitParameters /\ [][NextParameters]_vars

(* datastoreMutex alone: goroutines open and close the datastore and run   *)
(* read and write transactions at any time.                                *)
InitMutex == InitDataStore

NextMutex ==
    \E g \in Goroutines :
        \/ LockOpenDataStore(g)
        \/ \E openErr \in BOOLEAN : UnlockOpenDataStore(g, openErr)
        \/ LockCloseDataStore(g)
        \/ UnlockCloseDataStore(g)
        \/ RLockDatastoreView(g)
        \/ \E viewErr \in BOOLEAN : RUnlockDatastoreView(g, viewErr)
        \/ RLockDatastoreUpdate(g)
        \/ BeginUpdate(g)
        \/ \E updateErr \in BOOLEAN : RUnlockDatastoreUpdate(g, updateErr)

SpecMutex == InitMutex /\ [][NextMutex]_vars

(* Hot reload alone: a TrafficRulesSet or a Database after construction,   *)
(* the reloads of its file and two concurrent readers.                     *)
InitReload ==
    /\ serverEntries = EmptyBucket
    /\ keyValues = EmptyBucket
    /\ dialParameters = EmptyBucket
    /\ iterator = NoIterator
    /\ ret = NoRet
    /\ yielded = <<>>
    /\ storeTouched = FALSE
    /\ obf = ObfIdle
    /\ hello = HelloIdle
    /\ dial = DialIdle
    /\ stats = StatsIdle
    /\ lastSet = EmptyBucket
    /\ mutex = MutexIdle
    /\ rules \in {NewReloadable("TrafficRulesSet"), NewReloadable("Database")}
    /\ params = ParamsIdle
    /\ trafficRules = TrafficRulesIdle

NextReload ==
    \/ \E fileContent \in FileContents(rules.reloads + 1) : ReloadLock(fileContent)
    \/ ReloadAction
    \/ ReloadUnlock
    \/ \E r \in Readers, op \in ReaderOps(rules.kind) : ReaderRLock(r, op)
    \/ \E r \in Readers : ReaderRead(r)
    \/ \E r \in Readers : ReaderRUnlock(r)

SpecReload == InitReload /\ [][NextReload]_vars

(* The content of a TrafficRulesSet alone: the set NewTrafficRulesSet      *)
(* loaded from some file it accepts, the reloads of the file and the       *)
(* GetTrafficRules calls of the clients.                                   *)
InitTrafficRules ==
    /\ serverEntries = EmptyBucket
    /\ keyValues = EmptyBucket
    /\ dialParameters = EmptyBucket
    /\ iterator = NoIterator
    /\ ret = NoRet
    /\ yielded = <<>>
    /\ storeTouched = FALSE
    /\ obf = ObfIdle
    /\ hello = HelloIdle
    /\ dial = DialIdle
    /\ stats = StatsIdle
    /\ lastSet = EmptyBucket
    /\ mutex = MutexIdle
    /\ rules = RulesIdle
    /\ params = ParamsIdle
    /\ trafficRules \in {NewTrafficRulesSet(f) :
                            f \in {g \in TrafficRulesFiles :
                                      reloadAction(g.newSet, g).err = ""}}

NextTrafficRules ==
    \/ \E fileContent \in TrafficRulesFiles : ReloadTrafficRules(fileContent)
    \/ \E args \in GetTrafficRulesArgs : GetTrafficRules(args)

SpecTrafficRules == InitTrafficRules /\ [][NextTrafficRules]_vars

-----------------------------------------------------------------------------
(* Properties.                                                             *)

Range(seq) == {seq[k] : k \in 1..Len(seq)}

NoDuplicates(seq) == \A k, l \in 1..Len(seq) : k # l => seq[k] # seq[l]

Max(a, b) == IF a >= b THEN a ELSE b

HasValidRecord(bucket, ip) == ip \in DOMAIN bucket /\ bucket[ip].kind = "json"

(* The record a StoreServerEntry call described by r writes.               *)
IncomingRecord(r) ==
    [kind |-> "json", ip |-> r.ip, ver |-> r.ver, tag |-> r.tag,
     region |-> RegionOf(r.ip), tactics |-> TacticsOf(r.ip)]

(* C1: StoreServerEntry of a validated entry writes the incoming entry     *)
(* under its ip iff no valid (parsable) record exists for the ip, or       *)
(* replaceIfExists is set, or the incoming ConfigurationVersion is         *)
(* strictly greater than the stored one; otherwise the store is left       *)
(* unchanged; no error is returned either way.                             *)
C1_StorePolicy ==
    [][(ret'.op = "StoreServerEntry" /\ ret'.valid) =>
          LET ip == ret'.ip
              writes == \/ ~HasValidRecord(serverEntries, ip)
                        \/ ret'.flag
                        \/ ret'.ver > serverEntries[ip].ver
          IN  /\ ~ret'.err
              /\ writes =>
                    /\ DOMAIN serverEntries' = DOMAIN serverEntries \cup {ip}
                    /\ serverEntries'[ip] = IncomingRecord(ret')
                    /\ \A o \in DOMAIN serverEntries \ {ip} :
                          serverEntries'[o] = serverEntries[o]
              /\ ~writes => serverEntries' = serverEntries]_vars

(* A store without the replace flag was refused: the stored version is     *)
(* higher than the incoming one.                                           *)
C1_Witness ==
    /\ ret.op = "StoreServerEntry" /\ ret.valid /\ ~ret.flag /\ ~ret.err
    /\ HasValidRecord(serverEntries, ret.ip)
    /\ serverEntries[ret.ip].ver > ret.ver

(* C2: right after StoreServerEntry(E, false) the version stored for E's   *)
(* id is max(previously stored version, version of E) (the version of E    *)
(* when no valid record was stored), and no id's stored version            *)
(* decreases.                                                              *)
C2_VersionIsMax ==
    [][(ret'.op = "StoreServerEntry" /\ ret'.valid /\ ~ret'.flag) =>
          LET ip == ret'.ip
          IN  /\ HasValidRecord(serverEntries', ip)
              /\ serverEntries'[ip].ver =
                    IF HasValidRecord(serverEntries, ip)
                    THEN Max(serverEntries[ip].ver, ret'.ver)
                    ELSE ret'.ver
              /\ \A o \in IPs :
                    HasValidRecord(serverEntries, o) =>
                       /\ HasValidRecord(serverEntries', o)
                       /\ serverEntries'[o].ver >= serverEntries[o].ver]_vars

(* A lower version was offered without the replace flag and the highest    *)
(* version stayed.                                                         *)
C2_Witness ==
    /\ ret.op = "StoreServerEntry" /\ ret.valid /\ ~ret.flag
    /\ ret.ver = 0
    /\ HasValidRecord(serverEntries, ret.ip)
    /\ serverEntries[ret.ip].ver = MaxVersion

(* C3: the boolean NewServerEntryIterator returns is true iff a filter     *)
(* value was persisted (by PromoteServerEntry) and equals the current      *)
(* filter value; it is false when none was persisted, even for an empty    *)
(* current filter, and false with a configured TargetServerEntry.          *)
C3_AffinityBoolean ==
    ret.op = "NewServerEntryIterator" =>
        ret.flag = (/\ ret.target = ""
                    /\ FilterKey \in DOMAIN keyValues
                    /\ keyValues[FilterKey] = ret.region)

(* The constructor reported affinity for a persisted empty filter.         *)
C3_Witness ==
    /\ ret.op = "NewServerEntryIterator" /\ ret.flag
    /\ ret.region = "" /\ FilterKey \in DOMAIN keyValues

(* The first Next after a successful NewServerEntryIterator on a store     *)
(* with a promoted entry.                                                  *)
FirstNextStep ==
    /\ ret.op = "NewServerEntryIterator" /\ ~ret.err
    /\ iterator.kind = "store"
    /\ AffinityKey \in DOMAIN keyValues
    /\ ret'.op = "Next"

ReturnsAffinityEntry ==
    ret'.entry.kind = "json" /\ ret'.entry.ip = keyValues[AffinityKey]

(* The promoted entry's record parses and passes the iterator's region     *)
(* filter.                                                                 *)
AffinityUsable ==
    LET rec == BucketGet(serverEntries, keyValues[AffinityKey])
    IN  /\ rec.kind = "json"
        /\ (iterator.region = "" \/ rec.region = iterator.region)

(* C4 as stated (for a promoted entry that is usable): the first Next      *)
(* returns the promoted entry iff the persisted filter equals the current  *)
(* one.                                                                    *)
C4_Original ==
    [][(FirstNextStep /\ AffinityUsable) => (ReturnsAffinityEntry <=> ret.flag)]_vars

(* C4, amended: when the persisted filter equals the current one and the   *)
(* promoted entry's record parses and passes the iterator's region         *)
(* filter, the first Next returns the promoted entry.                      *)
C4_AffinityFirst ==
    [][(FirstNextStep /\ ret.flag /\ AffinityUsable) => ReturnsAffinityEntry]_vars

(* The first Next of a three-entry initial round returned the promoted     *)
(* entry.                                                                  *)
C4_Witness ==
    /\ ret.op = "Next" /\ iterator.kind = "store" /\ iterator.initialRound
    /\ iterator.applyServerAffinity
    /\ Len(iterator.serverEntryIDs) = 3
    /\ Len(yielded) = 1
    /\ AffinityKey \in DOMAIN keyValues
    /\ yielded[1] = keyValues[AffinityKey]
    /\ iterator.serverEntryIndex = 1

CycleEnded ==
    /\ iterator.kind = "store"
    /\ ret.op = "Next" /\ ret.entry.kind = "nil"
    /\ ~storeTouched

(* C5 as stated: a cycle over an unmodified store returns each stored      *)
(* entry (each record that parses) exactly once, and then reports end.     *)
C5_Original ==
    CycleEnded =>
        /\ NoDuplicates(yielded)
        /\ Range(yielded) = {ip \in IPs : HasValidRecord(serverEntries, ip)}

UsableFor(it) ==
    {ip \in DOMAIN serverEntries :
        /\ serverEntries[ip].kind = "json"
        /\ IF it.isTactics THEN serverEntries[ip].tactics
           ELSE it.region = "" \/ serverEntries[ip].region = it.region}

(* C5, amended: in a cycle over an unmodified store, Next returns each     *)
(* stored entry that parses and passes the iterator's filter exactly       *)
(* once, and then reports end; the same after Reset.                       *)
C5_EachUsableOnce ==
    (iterator.kind = "store" /\ ~storeTouched) =>
        /\ NoDuplicates(yielded)
        /\ Range(yielded) \subseteq UsableFor(iterator)
        /\ CycleEnded => Range(yielded) = UsableFor(iterator)

(* A cycle after Reset ended having returned three entries.                *)
C5_Witness ==
    /\ CycleEnded /\ ~iterator.initialRound
    /\ Len(yielded) = 3

(* C6: after the initial reset with ReplayCandidateCount > 0, at and       *)
(* after the shuffle head no id without a dial-parameters record precedes  *)
(* one with a record; the list is a permutation of the stored ids and the  *)
(* affinity slot holds the affinity id.                                    *)
C6_ReplayPartition ==
    (/\ ret.op = "NewServerEntryIterator" /\ ~ret.err
     /\ ret.target = "" /\ ret.replay > 0) =>
        LET ids == iterator.serverEntryIDs
            head == IF ret.flag /\ AffinityKey \in DOMAIN keyValues THEN 1 ELSE 0
        IN  /\ \A i, j \in head..(Len(ids) - 1) :
                  (i < j /\ HasDialParameters(At(ids, j), ret.networkID))
                     => HasDialParameters(At(ids, i), ret.networkID)
            /\ NoDuplicates(ids)
            /\ Range(ids) = DOMAIN serverEntries
            /\ head = 1 => At(ids, 0) = keyValues[AffinityKey]

(* An initial round with an affinity slot, then an id with a record, then  *)
(* one without.                                                            *)
C6_Witness ==
    /\ ret.op = "NewServerEntryIterator" /\ ret.replay > 0 /\ ret.flag
    /\ Len(iterator.serverEntryIDs) = 3
    /\ ~HasDialParameters(At(iterator.serverEntryIDs, 0), ret.networkID)
    /\ HasDialParameters(At(iterator.serverEntryIDs, 1), ret.networkID)
    /\ ~HasDialParameters(At(iterator.serverEntryIDs, 2), ret.networkID)

-----------------------------------------------------------------------------
(* Properties of the obfuscator, under SpecObf.                            *)

ServerCalled == obf.call.op = "NewServerObfuscator"

(* The fixed length fields of the bytes the server was given, decrypted    *)
(* under the key of the server's own keyword.                              *)
DecryptedFields ==
    XORKeyStream(
        initObfuscatorCiphers(SubSeq(obf.clientReader, 1, OBFUSCATE_SEED_LENGTH),
                              obf.call.config).clientToServerCipher,
        SubSeq(obf.clientReader, OBFUSCATE_SEED_LENGTH + 1, OBFUSCATE_SEED_LENGTH + 8)).out

DecryptedMagic == BigEndianInt32(SubSeq(DecryptedFields, 1, 4))

DecryptedLength == BigEndianInt32(SubSeq(DecryptedFields, 5, 8))

FieldsComplete == Len(obf.clientReader) >= OBFUSCATE_SEED_LENGTH + 8

(* C7: a seed message whose decrypted magic value is not                   *)
(* OBFUSCATE_MAGIC_VALUE is rejected as "invalid magic value" whatever its *)
(* padding length field holds, no Obfuscator is returned, and exactly      *)
(* 16 + 8 bytes of the client reader have been consumed, so no padding     *)
(* byte was read; a rejection for the padding length happens only when     *)
(* the magic value was right.                                              *)
C7_MagicBeforeLength ==
    (ServerCalled /\ FieldsComplete) =>
        /\ (DecryptedMagic # OBFUSCATE_MAGIC_VALUE) =>
              /\ obf.call.err = "invalid magic value"
              /\ obf.phase = "rejected"
              /\ obf.server = NoObfuscator
              /\ obf.consumed = 16 + 8
        /\ (obf.call.err = "invalid padding length") =>
              /\ DecryptedMagic = OBFUSCATE_MAGIC_VALUE
              /\ obf.consumed = 16 + 8

C7_Witness ==
    /\ ServerCalled
    /\ FieldsComplete
    /\ Len(obf.clientReader) > OBFUSCATE_SEED_LENGTH + 8
    /\ DecryptedMagic # OBFUSCATE_MAGIC_VALUE
    /\ DecryptedLength > OBFUSCATE_MAX_PADDING
    /\ obf.call.err = "invalid magic value"
    /\ obf.consumed = 16 + 8

(* The server was given the seed message of NewClientObfuscator and has    *)
(* the client's keyword.                                                   *)
SameKeyword ==
    /\ ServerCalled
    /\ obf.fields.client
    /\ obf.call.config.Keyword = obf.fields.keyword

(* C8: when the server has the client's keyword it accepts the client's    *)
(* seed message; both sides then hold equal ciphers in both directions,    *)
(* before any data the client-to-server stream stands at 8 + L bytes and   *)
(* the server-to-client stream at 0, and each buffer obfuscated on one     *)
(* side comes out unchanged from the same operation on the other side.     *)
C8_SameCipherState ==
    SameKeyword =>
        /\ obf.phase = "server"
        /\ obf.call.err = ""
        /\ obf.client.clientToServerCipher = obf.server.clientToServerCipher
        /\ obf.client.serverToClientCipher = obf.server.serverToClientCipher
        /\ obf.transfers = 0 =>
              /\ obf.server.clientToServerCipher.n = 8 + obf.client.paddingLength
              /\ obf.server.serverToClientCipher.n = 0
        /\ obf.transfer.out = obf.transfer.buffer

(* Data has gone both ways after a seed message with the longest padding.  *)
C8_Witness ==
    /\ SameKeyword
    /\ obf.client.paddingLength = OBFUSCATE_MAX_PADDING
    /\ obf.transfers >= 2
    /\ obf.transfer.op = "ObfuscateServerToClient"
    /\ obf.client.clientToServerCipher.n > 8 + obf.client.paddingLength
    /\ obf.transfer.wire # obf.transfer.buffer
    /\ obf.transfer.out = obf.transfer.buffer

ServerAccepted == ServerCalled /\ obf.phase = "server"

SentPaddingLength == BigEndianInt32(obf.fields.length)

(* C9: a server with the writer's keyword that accepts a seed message      *)
(* takes the first SEED_LENGTH bytes of the padding the writer encrypted   *)
(* as its padding PRNG seed when the padding has at least SEED_LENGTH      *)
(* bytes, and a newly generated seed otherwise; a seed message with the    *)
(* right magic value and a complete padding of 0..SEED_LENGTH-1 bytes is   *)
(* accepted.                                                               *)
C9_SeedFromPadding ==
    (ServerCalled /\ FieldsComplete /\ obf.call.config.Keyword = obf.fields.keyword) =>
        /\ obf.phase = "server" =>
              IF SentPaddingLength >= SEED_LENGTH
              THEN /\ obf.server.paddingPRNGSeed =
                          SubSeq(obf.fields.padding, 1, SEED_LENGTH)
                   /\ ~obf.generated
              ELSE /\ obf.server.paddingPRNGSeed \in GeneratedSeeds
                   /\ obf.generated
        /\ (/\ obf.fields.magic = BigEndianUint32(OBFUSCATE_MAGIC_VALUE)
            /\ SentPaddingLength >= 0
            /\ SentPaddingLength < SEED_LENGTH
            /\ Len(obf.fields.padding) >= SentPaddingLength)
              => obf.phase = "server"

(* A legacy client's padding of SEED_LENGTH - 1 bytes was accepted.        *)
C9_Witness ==
    /\ ServerAccepted
    /\ ~obf.fields.client
    /\ SentPaddingLength = SEED_LENGTH - 1
    /\ Len(obf.fields.padding) = SEED_LENGTH - 1
    /\ obf.generated
    /\ obf.consumed = Len(obf.clientReader)

ClientCalled == obf.call.op = "NewClientObfuscator"

InPaddingRange(n) == n >= SEED_LENGTH /\ n <= OBFUSCATE_MAX_PADDING

C11_EffectiveBounds ==
    /\ (ClientCalled /\ obf.call.err = "") =>
          /\ SEED_LENGTH <= obf.call.minPadding
          /\ obf.call.minPadding <= obf.call.maxPadding
          /\ obf.call.maxPadding <= OBFUSCATE_MAX_PADDING
          /\ obf.call.minPadding <= obf.client.paddingLength
          /\ obf.client.paddingLength <= obf.call.maxPadding
          /\ Len(obf.client.seedMessage) =
                 OBFUSCATE_SEED_LENGTH + 8 + obf.client.paddingLength
          /\ Len(obf.fields.padding) = obf.client.paddingLength
    /\ SameKeyword => obf.call.err # "invalid padding length"

(* The longest padding was produced and read in full by the server.        *)
C11_Witness ==
    /\ SameKeyword
    /\ obf.client.paddingLength = OBFUSCATE_MAX_PADDING
    /\ obf.call.err = ""
    /\ obf.consumed = OBFUSCATE_SEED_LENGTH + 8 + OBFUSCATE_MAX_PADDING
    /\ obf.transfers = 0


(* C12: two ClientHello assemblies with the same randomized profile and    *)
(* the same seed make identical choices: hello variant, cipher suites,     *)
(* signature algorithms, curves, and extension set and order.              *)
BothBuilt == hello.first.built /\ hello.second.built

C12_SameChoices ==
    (BothBuilt /\ hello.seed # NilSeed) => hello.first = hello.second

(* Once the variant is fixed, the seed fixes every other choice.           *)
SameChoicesGivenVariant ==
    (BothBuilt /\ hello.first.clientHelloID = hello.second.clientHelloID)
        => hello.first = hello.second


(* Properties of CustomTLSDial.                                            *)
DialCalled == dial.pc # "idle"

(* The raw dial and the address split succeeded: the profile, the SNI and  *)
(* InsecureSkipVerify have been decided.                                   *)
DialPrepared == dial.hostname # ""

DialSteps == Range(dial.steps)

StepCount(step) == Cardinality({i \in 1..Len(dial.steps) : dial.steps[i] = step})

Before(a, b) ==
    \E i, j \in 1..Len(dial.steps) :
        i < j /\ dial.steps[i] = a /\ dial.steps[j] = b

HasPin == dial.config.VerifyLegacyCertificate # NoCertificate

NoSNICase ==
    /\ ~dial.config.UseDialAddrSNI
    /\ ~(dial.config.SNIServerName # "" /\ ~HasPin)

(* C13: SelectTLSProfile returns a supported profile, which is on the      *)
(* LimitTLSProfiles list when that list is non-empty; every such profile   *)
(* can be returned; the empty string is returned only when the list is     *)
(* non-empty and holds no supported profile.                               *)
EligibleTLSProfiles(limit) ==
    {p \in Range(SupportedTLSProfiles) : Len(limit) = 0 \/ p \in Range(limit)}

C13_SelectTLSProfile ==
    (DialPrepared /\ dial.config.TLSProfile = "") =>
        LET limit == dial.config.LimitTLSProfiles
        IN  /\ dial.selectedTLSProfile \in EligibleTLSProfiles(limit) \cup {""}
            /\ dial.selectedTLSProfile = "" =>
                  (Len(limit) > 0 /\ EligibleTLSProfiles(limit) = {})
            /\ EligibleTLSProfiles(limit) # {} =>
                  SelectTLSProfile(limit) = EligibleTLSProfiles(limit)

C13_Witness ==
    /\ DialPrepared
    /\ dial.config.TLSProfile = ""
    /\ dial.config.LimitTLSProfiles = <<TLS_PROFILE_RANDOMIZED>>
    /\ dial.selectedTLSProfile = TLS_PROFILE_RANDOMIZED

C15_PinEnforced ==
    /\ (DialPrepared /\ HasPin /\ ~dial.config.SkipVerify) =>
          /\ "handshake" \in DialSteps => dial.tlsConfigServerName = ""
          /\ dial.conn =>
                /\ Len(dial.peerCertificates) >= 1
                /\ dial.peerCertificates[1].Raw = dial.config.VerifyLegacyCertificate.Raw
    /\ (DialPrepared /\ ~HasPin /\ ~dial.config.SkipVerify
           /\ dial.tlsConfigInsecureSkipVerify /\ dial.conn) =>
          /\ Len(dial.peerCertificates) >= 1
          /\ VerifyError(dial.peerCertificates, dial.hostname) = ""

(* Without UseDialAddrSNI the pin is enforced.                             *)
PinEnforcedWithoutDialAddrSNI ==
    dial.config.UseDialAddrSNI \/ C15_PinEnforced

(* C16 as stated: a call whose context was cancelled while the goroutine   *)
(* was running returns the cancellation error and no connection, after     *)
(* closing the raw connection and receiving the goroutine's result; and    *)
(* no call returns before its goroutine has ended.                         *)
GoroutineEnded == dial.goroutine \in {"none", "done"}

CancelledReturn ==
    /\ dial.err = "context canceled"
    /\ ~dial.conn
    /\ dial.rawConn = "closed"
    /\ Before("cancel", "close")
    /\ Before("close", "result")
    /\ Before("result", "return")

C16_Original ==
    /\ (dial.cancelledWhileRunning /\ dial.pc = "returned") => CancelledReturn
    /\ dial.pc = "returned" => GoroutineEnded

(* C16, amended: the same for a call whose select took the cancellation    *)
(* branch; while it waits for the goroutine the raw connection is closed.  *)
C16_CancelJoins ==
    /\ ("cancel" \in DialSteps /\ dial.pc = "returned") => CancelledReturn
    /\ dial.pc = "join" => dial.rawConn = "closed"
    /\ dial.pc = "returned" => GoroutineEnded

C16_Witness ==
    /\ dial.cancelledWhileRunning
    /\ dial.pc = "returned"
    /\ dial.goroutine = "done"
    /\ CancelledReturn

(* C17: a call that returns an error after the raw dial succeeded has      *)
(* closed the raw connection; the raw connection is open after the return  *)
(* only when a connection is returned.                                     *)
C17_ErrorCloses ==
    (dial.pc = "returned" /\ dial.rawConn # "none") =>
        (dial.rawConn = "open" <=> dial.conn)

(* The returns after the select statement do close it.                     *)
ErrorClosesAfterSelect ==
    (dial.pc = "returned" /\ "handshake" \in DialSteps) =>
        (dial.rawConn = "open" <=> dial.conn)

GotDialParameters == ret.op = "GetDialParameters"

C19_GetReturnsLastSet ==
    GotDialParameters =>
        /\ ~ret.err
        /\ ret.dialParams = IF <<ret.ip, ret.networkID>> \in DOMAIN lastSet
                            THEN lastSet[<<ret.ip, ret.networkID>>]
                            ELSE NilDialParameters

(* The pairs whose key no other pair in use shares.                        *)
KeyIsOwn(ip, networkID) ==
    \A ip2 \in DialParameterIPs, networkID2 \in DialParameterNetworkIDs :
        makeDialParametersKey(ip2, networkID2) = makeDialParametersKey(ip, networkID)
            => (ip2 = ip /\ networkID2 = networkID)

(* For those pairs the record read is the record last set.                 *)
GetReturnsLastSetOwnKey ==
    (GotDialParameters /\ KeyIsOwn(ret.ip, ret.networkID)) =>
        /\ ~ret.err
        /\ ret.dialParams = IF <<ret.ip, ret.networkID>> \in DOMAIN lastSet
                            THEN lastSet[<<ret.ip, ret.networkID>>]
                            ELSE NilDialParameters

RoundTripReached ==
    /\ GotDialParameters
    /\ KeyIsOwn(ret.ip, ret.networkID)
    /\ ret.dialParams # NilDialParameters
    /\ ret.dialParams.RandomizedTLSProfileSeed # <<>>


(* C20: when OpenDataStore has returned without error, every persistent    *)
(* stat record of every stat type is unreported.                           *)
AllUnreported ==
    \A statType \in StatTypes : \A key \in DOMAIN stats.buckets[statType] :
        stats.buckets[statType][key] = persistentStatStateUnreported

OpenReturnedNil == stats.op = "OpenDataStore" /\ stats.err = "" /\ stats.pc = "idle"

C20_OpenResets == OpenReturnedNil => AllUnreported

(* It is so when the reset transaction did not fail.                       *)
OpenResetsUnlessResetFailed ==
    (OpenReturnedNil /\ stats.resetErr = "") => AllUnreported

ResetReached ==
    /\ OpenReturnedNil
    /\ stats.resetErr = ""
    /\ \E statType \in StatTypes : DOMAIN stats.buckets[statType] # {}

-----------------------------------------------------------------------------
(* Properties of the datastore singleton, under SpecDataStore.             *)

(* The step is a call of OpenDataStore that has returned an error, or has  *)
(* set the singleton and released the mutex.                               *)
OpenDataStoreStep ==
    /\ stats.pc = "idle"
    /\ stats' # stats
    /\ \/ stats'.pc = "reset"
       \/ stats'.op = "OpenDataStore" /\ stats'.err # ""

CloseDataStoreStep == stats.pc = "idle" /\ stats'.op = "CloseDataStore" /\ stats' # stats

(* The step is a datastore call that attempts a read or a write: the calls *)
(* of a target iterator, a Next at the end of its list and the store of an *)
(* invalid entry return before datastoreView or datastoreUpdate.           *)
AttemptsTransaction ==
    /\ stats' = stats
    /\ ret' # ret
    /\ \/ ret'.op = "StoreServerEntry" /\ ret'.valid
       \/ ret'.op = "PromoteServerEntry"
       \/ /\ ret'.op \in {"NewServerEntryIterator", "NewTacticsServerEntryIterator"}
          /\ ret'.target = ""
       \/ ret'.op = "Reset" /\ iterator.kind = "store"
       \/ /\ ret'.op = "Next" /\ iterator.kind = "store"
          /\ iterator.serverEntryIndex < Len(iterator.serverEntryIDs)

(* C21: OpenDataStore while the datastore is open returns an error and     *)
(* leaves the open datastore in place; CloseDataStore while none is open   *)
(* changes nothing, and after CloseDataStore none is open; OpenDataStore   *)
(* while none is open is not refused as already open; and every datastore  *)
(* read or write attempted while none is open returns 'database not open'  *)
(* and leaves the buckets unchanged.                                       *)
C21_TwoStates ==
    [][/\ (OpenDataStoreStep /\ stats.activeDatastoreDB) =>
             /\ stats'.err = "db already open"
             /\ stats'.activeDatastoreDB
             /\ stats'.buckets = stats.buckets
             /\ UNCHANGED <<serverEntries, keyValues, dialParameters>>
       /\ (OpenDataStoreStep /\ ~stats.activeDatastoreDB) =>
             stats'.err # "db already open"
       /\ CloseDataStoreStep =>
             /\ ~stats'.activeDatastoreDB
             /\ stats'.err = ""
             /\ stats'.buckets = stats.buckets
             /\ UNCHANGED <<serverEntries, keyValues, dialParameters, iterator, ret>>
       /\ (AttemptsTransaction /\ ~stats.activeDatastoreDB) =>
             /\ ret'.err /\ ret'.message = "database not open"
             /\ ret'.entry = NilData
             /\ UNCHANGED <<serverEntries, keyValues, dialParameters>>]_vars

(* The datastore was open (an entry was promoted), then closed (the last   *)
(* call found no database), and OpenDataStore has succeeded again.         *)
C21_Witness ==
    /\ stats.activeDatastoreDB /\ stats.pc = "idle"
    /\ stats.op = "OpenDataStore" /\ stats.err = ""
    /\ AffinityKey \in DOMAIN keyValues
    /\ ret.op = "PromoteServerEntry" /\ ret.err /\ ret.message = "database not open"

-----------------------------------------------------------------------------
(* Properties of datastoreMutex, under SpecMutex.                          *)

InTransaction(g) == mutex.pc[g] \in {"view", "update", "write"}

(* C22 as stated: a write holds the lock in exclusive mode, so that no     *)
(* write transaction runs while another goroutine runs a read or a write   *)
(* transaction.                                                            *)
C22_Original ==
    \A g, h \in Goroutines :
        (g # h /\ mutex.pc[g] = "write") => mutex.pc[h] \notin {"view", "write"}

(* C22, amended: read and write transactions both hold datastoreMutex in   *)
(* shared mode and only OpenDataStore and CloseDataStore hold it in        *)
(* exclusive mode: the datastore is never opened or closed while a         *)
(* transaction runs, and it is set throughout every transaction.           *)
C22_SharedTransactions ==
    /\ \A g \in Goroutines :
          InTransaction(g) =>
             /\ g \in mutex.readers
             /\ mutex.writer = ""
             /\ stats.activeDatastoreDB
    /\ \A g \in Goroutines :
          mutex.pc[g] \in {"open", "close"} =>
             /\ mutex.writer = g
             /\ mutex.readers = {}
             /\ \A h \in Goroutines \ {g} : mutex.pc[h] \in {"idle", "reset"}

(* A write transaction and a read transaction run at the same time, both   *)
(* holding the mutex in shared mode, while a third goroutine has not yet   *)
(* been able to lock it.                                                   *)
C22_Witness ==
    \E g, h \in Goroutines :
        /\ mutex.pc[g] = "write" /\ mutex.pc[h] = "view"
        /\ mutex.readers = {g, h}
        /\ \E k \in Goroutines \ {g, h} : mutex.pc[k] = "idle"

-----------------------------------------------------------------------------
(* Properties of the hot reload, under SpecReload.                         *)

OneGeneration(values) == \A i, j \in 1..Len(values) : values[i] = values[j]

(* C23: the fields a reader reads between RLock and RUnlock all come from  *)
(* one file content, the old one or the new one, and outside a reload all  *)
(* fields of the object come from one file content: a reload replaces all  *)
(* of them or (when the content is rejected) none.                         *)
C23_OldOrNew ==
    /\ \A r \in Readers : OneGeneration(rules.reader[r].seen)
    /\ ~rules.writer =>
          \A i, j \in 1..Len(ReloadedFields(rules.kind)) :
              rules.fields[ReloadedFields(rules.kind)[i]] =
                  rules.fields[ReloadedFields(rules.kind)[j]]

(* One reader has read the old content in full, a reload has replaced it,  *)
(* and another reader has read the new content in full.                    *)
C23_Witness ==
    \E r, q \in Readers :
        /\ rules.reader[r].pc = "reading" /\ rules.reader[q].pc = "idle"
        /\ Len(rules.reader[q].seen) = 2 /\ rules.reader[q].seen[1] = 0
        /\ Len(rules.reader[r].seen) = Len(ReaderFields(rules.reader[r].op))
        /\ Len(rules.reader[r].seen) > 2
        /\ rules.reader[r].seen[1] = 1
        /\ rules.reloads = 1 /\ rules.err = ""

-----------------------------------------------------------------------------
(* Properties of ServerEntryIterator.Next, under SpecDataStore.            *)

(* The step is a call of Next on an iterator over the store.               *)
StoreNextStep ==
    /\ iterator.kind = "store"
    /\ ret'.op = "Next"
    /\ stats' = stats
    /\ <<ret, iterator, yielded>>' # <<ret, iterator, yielded>>

(* The positions at or after the cursor whose record parses and passes     *)
(* the iterator's filter.                                                  *)
UsablePositions ==
    {k \in iterator.serverEntryIndex..(Len(iterator.serverEntryIDs) - 1) :
        At(iterator.serverEntryIDs, k) \in UsableFor(iterator)}

Min(S) == CHOOSE k \in S : \A j \in S : k <= j

NextReturned ==
    /\ iterator.kind # "none"
    /\ ret'.op = "Next" /\ ~ret'.err
    /\ stats' = stats
    /\ <<ret, iterator, yielded>>' # <<ret, iterator, yielded>>

(* The record stored under the id at position k of the iterator's list.    *)
RecordAt(k) == BucketGet(serverEntries, At(iterator.serverEntryIDs, k))

(* C25: every entry Next returns satisfies the iterator's filter: for a    *)
(* tactics iterator it supports a tactics protocol, for a tunnel iterator  *)
(* its region is the configured EgressRegion or EgressRegion is empty;     *)
(* and an entry failing the filter does not end the cycle: Next reports    *)
(* end only when no stored entry from the cursor on satisfies the filter.  *)
C25_FilterHolds ==
    [][NextReturned =>
          /\ ret'.entry.kind # "nil" =>
                IF iterator.isTactics
                THEN ret'.entry.tactics
                ELSE iterator.region = "" \/ ret'.entry.region = iterator.region
          /\ (iterator.kind = "store" /\ ret'.entry.kind = "nil") =>
                \A k \in iterator.serverEntryIndex..(Len(iterator.serverEntryIDs) - 1) :
                    RecordAt(k).kind = "json" =>
                       IF iterator.isTactics
                       THEN ~RecordAt(k).tactics
                       ELSE iterator.region # ""
                            /\ RecordAt(k).region # iterator.region]_vars

(* One Next of a tunnel iterator with an EgressRegion skipped a stored     *)
(* entry of another region and returned the entry after it.                *)
C25_Witness ==
    /\ ret.op = "Next" /\ ret.entry.kind = "json"
    /\ iterator.kind = "store" /\ ~iterator.isTactics
    /\ iterator.region # "" /\ ret.entry.region = iterator.region
    /\ Len(iterator.serverEntryIDs) = 2 /\ iterator.serverEntryIndex = 2
    /\ Len(yielded) = 1
    /\ RecordAt(0).kind = "json" /\ RecordAt(0).region # iterator.region

-----------------------------------------------------------------------------
(* Properties of the target-entry iterator, under SpecDataStore.           *)

Constructors == {"NewServerEntryIterator", "NewTacticsServerEntryIterator"}

(* The step is a call of Next, or of Reset, on a target-entry iterator.    *)
TargetNextStep ==
    /\ iterator.kind = "target"
    /\ ret'.op = "Next"
    /\ stats' = stats
    /\ <<ret, iterator, yielded>>' # <<ret, iterator, yielded>>

TargetResetStep ==
    /\ iterator.kind = "target"
    /\ ret'.op = "Reset"
    /\ stats' = stats
    /\ <<ret, iterator, yielded>>' # <<ret, iterator, yielded>>

(* C26: a target-entry iterator never reads the store (its calls succeed   *)
(* whether or not a datastore is open, and return the configured entry     *)
(* whatever the buckets hold) and yields its entry exactly once per cycle: *)
(* the first Next after construction or Reset returns the entry, every     *)
(* further Next returns end; its constructor reports affinity = false.     *)
C26_TargetOnce ==
    [][/\ (ret'.op \in Constructors /\ ret'.target # "") =>
             /\ ~ret'.flag
             /\ ~ret'.err => (iterator'.kind = "target" /\ yielded' = <<>>)
       /\ TargetNextStep =>
             /\ ~ret'.err
             /\ IF yielded = <<>>
                THEN /\ ret'.entry = TargetData(iterator.target)
                     /\ yielded' = <<iterator.target>>
                ELSE /\ ret'.entry = NilData
                     /\ yielded' = yielded
             /\ UNCHANGED <<serverEntries, keyValues, dialParameters>>
       /\ TargetResetStep =>
             /\ ~ret'.err
             /\ yielded' = <<>>
             /\ iterator'.kind = "target" /\ iterator'.target = iterator.target
             /\ UNCHANGED <<serverEntries, keyValues, dialParameters>>]_vars

(* With no datastore open, a target-entry iterator has returned its entry  *)
(* and a further Next has returned end.                                    *)
C26_Witness ==
    /\ iterator.kind = "target"
    /\ ~stats.activeDatastoreDB
    /\ ret.op = "Next" /\ ~ret.err /\ ret.entry = NilData
    /\ yielded = <<iterator.target>>

-----------------------------------------------------------------------------
(* Properties of server affinity, under SpecAffinity.                      *)

(* The step is a call of PromoteServerEntry.                               *)
PromoteStep ==
    /\ ret'.op = "PromoteServerEntry"
    /\ ret' # ret \/ keyValues' # keyValues

(* Both values are the ones the call in ret' was to set.                   *)
BothSet ==
    /\ AffinityKey \in DOMAIN keyValues' /\ keyValues'[AffinityKey] = ret'.ip
    /\ FilterKey \in DOMAIN keyValues' /\ keyValues'[FilterKey] = ret'.region

(* The step is the first Next of an initial round whose affinity slot      *)
(* holds an id with no record.                                             *)
StaleAffinityNext ==
    /\ StoreNextStep
    /\ iterator.initialRound /\ iterator.applyServerAffinity
    /\ iterator.serverEntryIndex = 0
    /\ Len(iterator.serverEntryIDs) > 0
    /\ AffinityKey \in DOMAIN keyValues
    /\ At(iterator.serverEntryIDs, 0) = keyValues[AffinityKey]
    /\ keyValues[AffinityKey] \notin DOMAIN serverEntries

(* C27: PromoteServerEntry writes the affinity id and the filter           *)
(* fingerprint in one transaction: after the call both hold the values of  *)
(* this call, or the key-value bucket is as it was (so whenever the call   *)
(* returns an error); promoting an id with no stored record leaves the     *)
(* bucket as it was and returns no error; and an affinity id whose record  *)
(* is missing does not make the iterator fail: the constructor succeeds    *)
(* and the first Next passes over the id and returns another entry, or     *)
(* end when no id of its list is usable.                                   *)
C27_PromoteAtomic ==
    [][/\ PromoteStep =>
             /\ BothSet \/ UNCHANGED keyValues
             /\ ret'.err => UNCHANGED keyValues
             /\ ret'.ip \notin DOMAIN serverEntries =>
                   (~ret'.err /\ UNCHANGED keyValues)
             /\ (ret'.ip \in DOMAIN serverEntries /\ ~ret'.err) => BothSet
       /\ (ret'.op = "NewServerEntryIterator" /\ stats.activeDatastoreDB) => ~ret'.err
       /\ StaleAffinityNext =>
             /\ ~ret'.err
             /\ ret'.entry.ip # keyValues[AffinityKey]
             /\ ret'.entry.kind = "nil" => UsablePositions = {}]_vars

(* An iterator whose affinity slot holds an id with no record has          *)
(* returned an entry; then a stored entry was promoted and the promotion   *)
(* of an unknown id has left both values in place.                         *)
C27_Witness ==
    /\ ret.op = "PromoteServerEntry" /\ ~ret.err
    /\ ret.ip \notin DOMAIN serverEntries
    /\ AffinityKey \in DOMAIN keyValues
    /\ keyValues[AffinityKey] \in DOMAIN serverEntries
    /\ keyValues[FilterKey] = "CA"
    /\ iterator.kind = "store" /\ iterator.initialRound
    /\ Len(iterator.serverEntryIDs) > 1
    /\ At(iterator.serverEntryIDs, 0) = StaleAffinityID
    /\ Len(yielded) = 1 /\ iterator.serverEntryIndex = 2

-----------------------------------------------------------------------------
(* Properties of StoreServerEntry on malformed input, under SpecStore.     *)

(* The step is a call of StoreServerEntry with server entry fields that    *)
(* protocol.ValidateServerEntryFields rejects.                             *)
MalformedStoreStep ==
    /\ ret'.op = "StoreServerEntry" /\ ~ret'.valid
    /\ ret' # ret

(* C28: when the server entry data passed to StoreServerEntry is           *)
(* malformed, the entry is skipped: the store is unchanged and no error    *)
(* is returned.                                                            *)
C28_MalformedSkipped ==
    [][MalformedStoreStep => (~ret'.err /\ UNCHANGED serverEntries)]_vars

(* What the code does with a malformed entry: the store is unchanged and   *)
(* the error 'invalid server entry' is returned.                           *)
MalformedFails ==
    [][MalformedStoreStep =>
          /\ ret'.err /\ ret'.message = "invalid server entry"
          /\ UNCHANGED serverEntries]_vars

MalformedReached ==
    /\ ret.op = "StoreServerEntry" /\ ~ret.valid /\ ret.err
    /\ DOMAIN serverEntries # {}

-----------------------------------------------------------------------------
(* Properties of ClientParameters.Set, under SpecParameters.               *)

(* The step is a call of Set.                                              *)
SetStep == params'.op = "Set" /\ params' # params

(* The entries of the call's map whose value is valid, and the others.     *)
ValidEntries == {e \in params'.applyParameters : ValidValue(e.name, e.value)}

InvalidEntries == params'.applyParameters \ ValidEntries

-----------------------------------------------------------------------------
(* Properties of the cipher keys, under SpecObf.                           *)

(* The obfuscator seed at the head of the seed message, staged or sent.    *)
SeedOf ==
    SubSeq(IF obf.phase = "client" THEN obf.client.seedMessage ELSE obf.clientReader,
           1, OBFUSCATE_SEED_LENGTH)

(* The ciphers of seed S and keyword K under a configuration that has no   *)
(* padding settings at all.                                                *)
ReferenceCiphers(S, K) == initObfuscatorCiphers(S, [NoConfig EXCEPT !.Keyword = K])

KeysAsReference(obfuscator, S, K) ==
    /\ \E reference \in {ReferenceCiphers(S, K)} :
          /\ obfuscator.clientToServerCipher.key = reference.clientToServerCipher.key
          /\ obfuscator.serverToClientCipher.key = reference.serverToClientCipher.key
    /\ obfuscator.clientToServerCipher.key # obfuscator.serverToClientCipher.key

(* C30: the two cipher keys are functions of the obfuscator seed, the      *)
(* keyword and the direction only: whatever the padding bounds, the        *)
(* padding length and the padding bytes, an obfuscator built by            *)
(* NewClientObfuscator or accepted by NewServerObfuscator holds the keys   *)
(* that seed and keyword give without any padding settings; and the        *)
(* client_to_server key differs from the server_to_client key, for every   *)
(* seed and keyword.                                                       *)
C30_KeysFromSeedAndKeyword ==
    /\ obf.fields.client => KeysAsReference(obf.client, SeedOf, obf.fields.keyword)
    /\ ServerAccepted => KeysAsReference(obf.server, SeedOf, obf.call.config.Keyword)
    /\ obf.phase = "idle" =>
          \A S \in ObfuscatorSeeds, K \in Keywords :
              deriveKey(S, K, OBFUSCATE_CLIENT_TO_SERVER_IV) #
                  deriveKey(S, K, OBFUSCATE_SERVER_TO_CLIENT_IV)

(* A server has accepted the seed message of a client that drew the        *)
(* longest padding, with the seed that other peers send with paddings of   *)
(* 0 and 1 bytes.                                                          *)
C30_Witness ==
    /\ ServerAccepted /\ obf.fields.client
    /\ obf.client.paddingLength = OBFUSCATE_MAX_PADDING
    /\ SeedOf = [i \in 1..OBFUSCATE_SEED_LENGTH |-> i]
    /\ obf.server.clientToServerCipher.key # obf.server.serverToClientCipher.key

-----------------------------------------------------------------------------
(* Properties of the rounds after Reset, under Spec.                       *)

(* Every list without repetition of the ids stored now.                    *)
StoredPermutations ==
    {ids \in [1..Cardinality(DOMAIN serverEntries) -> DOMAIN serverEntries] :
        \A i, j \in DOMAIN ids : ids[i] = ids[j] => i = j}

(* Reset has returned nil on an iterator over the store.                   *)
ResetReturned == ret.op = "Reset" /\ ~ret.err /\ iterator.kind = "store"

(* C31: affinity and the replay partition apply in the initial round only: *)
(* the list Reset has built is a list of all stored ids, and the lists     *)
(* Reset can build are all the orders of the stored ids: the affinity id   *)
(* has no slot of its own and ids with dial parameters are not moved to    *)
(* the front.                                                              *)
C31_ResetShufflesAll ==
    ResetReturned =>
        /\ ~iterator.initialRound
        /\ iterator.serverEntryIndex = 0
        /\ iterator.serverEntryIDs \in StoredPermutations
        /\ ResetLists(FALSE, iterator.applyServerAffinity, 0, "") = StoredPermutations

(* After Reset on an iterator that applied affinity in its initial round,  *)
(* the affinity id is last in the list and an id without dial parameters   *)
(* precedes one with them.                                                 *)
C31_Witness ==
    /\ ResetReturned /\ iterator.applyServerAffinity
    /\ AffinityKey \in DOMAIN keyValues
    /\ Len(iterator.serverEntryIDs) = 3
    /\ At(iterator.serverEntryIDs, 2) = keyValues[AffinityKey]
    /\ \E networkID \in NetworkIDs :
          /\ ~HasDialParameters(At(iterator.serverEntryIDs, 0), networkID)
          /\ HasDialParameters(At(iterator.serverEntryIDs, 1), networkID)

-----------------------------------------------------------------------------
(* C32.  The value of a field as the claim states it: the value the first  *)
(* matching element of FilteredRules sets explicitly, else the value       *)
(* DefaultRules sets, else the built-in default.                           *)
MatchesAt(i) ==
    filterMatches(trafficRules.set.FilteredRules[i].Filter, trafficRules.args.tunnelProtocol,
                  trafficRules.args.geoIPData, trafficRules.args.state)

IsFirstMatch(i) == MatchesAt(i) /\ \A j \in 1..(i - 1) : ~MatchesAt(j)

OverriddenDefault(name) ==
    IF \E i \in 1..Len(trafficRules.set.FilteredRules) :
           IsFirstMatch(i) /\ trafficRules.set.FilteredRules[i].Rules[name] # Nil
    THEN trafficRules.set.FilteredRules[
             CHOOSE i \in 1..Len(trafficRules.set.FilteredRules) : IsFirstMatch(i)].Rules[name]
    ELSE IF trafficRules.set.DefaultRules[name] # Nil
         THEN trafficRules.set.DefaultRules[name]
         ELSE <<builtInDefault(name)>>

GetTrafficRulesReturned == trafficRules.op = "GetTrafficRules"

(* C32 as stated: every field of the result of GetTrafficRules is non-nil  *)
(* and is the default overridden by the first matching element only.       *)
C32_Original ==
    GetTrafficRulesReturned =>
        \A name \in TrafficRulesFields :
            /\ trafficRules.result[name] # Nil
            /\ trafficRules.result[name] = OverriddenDefault(name)

UnthrottleDropped ==
    /\ trafficRules.result["UnthrottleFirstTunnelOnly"] = <<TRUE>>
    /\ ~trafficRules.args.isFirstTunnelInSession

OverriddenOrDropped ==
    \A name \in TrafficRulesFields :
        /\ trafficRules.result[name] # Nil
        /\ trafficRules.result[name] =
              IF name \in {"ReadUnthrottledBytes", "WriteUnthrottledBytes"}
                 /\ UnthrottleDropped
              THEN <<0>> ELSE OverriddenDefault(name)

(* C32, amended: GetTrafficRules leaves the stored set as it is, every     *)
(* field of its result is non-nil, and every field is the default          *)
(* overridden by the first matching element only, except that              *)
(* ReadUnthrottledBytes and WriteUnthrottledBytes are 0 when the resulting *)
(* UnthrottleFirstTunnelOnly is true and the tunnel is not the first of    *)
(* its session.                                                            *)
C32_FirstMatchOverrides ==
    [][trafficRules'.op = "GetTrafficRules" =>
          /\ trafficRules'.set = trafficRules.set
          /\ OverriddenOrDropped']_vars

(* A later tunnel of a client that the first element does not match and    *)
(* the second and third do: the second element's explicit 0 and list       *)
(* override the defaults, the third element's fields are not taken, an     *)
(* omitted field keeps its built-in default, and the unthrottled bytes the *)
(* second element sets are dropped.                                        *)
C32_Witness ==
    /\ GetTrafficRulesReturned
    /\ Len(trafficRules.set.FilteredRules) = 3
    /\ ~MatchesAt(1) /\ MatchesAt(2) /\ MatchesAt(3)
    /\ trafficRules.set.DefaultRules = Omitted
    /\ trafficRules.set.FilteredRules[2].Rules["ReadUnthrottledBytes"] = <<100>>
    /\ trafficRules.set.FilteredRules[3].Rules["ReadBytesPerSecond"] = <<7>>
    /\ UnthrottleDropped
    /\ trafficRules.result["ReadUnthrottledBytes"] = <<0>>
    /\ trafficRules.result["ReadBytesPerSecond"] = <<0>>
    /\ trafficRules.result["MaxTCPPortForwardCount"] = <<0>>
    /\ trafficRules.result["MaxUDPPortForwardCount"] = <<DEFAULT_MAX_UDP_PORT_FORWARD_COUNT>>
    /\ trafficRules.result["AllowTCPPorts"] = <<<<>>>>
    /\ Len(trafficRules.result["AllowSubnets"][1]) = 1

-----------------------------------------------------------------------------
(* C35.  What the claim lists as a valid set: no negative limit, a         *)
(* positive threshold whenever the history size is positive, only known    *)
(* handshake parameter names, and subnets that parse.                      *)
RulesOf(set) ==
    {set.DefaultRules} \cup {set.FilteredRules[i].Rules : i \in 1..Len(set.FilteredRules)}

NoNegativeLimits(set) ==
    /\ set.MeekRateLimiterHistorySize >= 0
    /\ set.MeekRateLimiterThresholdSeconds >= 0
    /\ set.MeekRateLimiterGarbageCollectionTriggerCount >= 0
    /\ set.MeekRateLimiterReapHistoryFrequencySeconds >= 0
    /\ \A r \in RulesOf(set) : \A name \in Int64Fields \cup IntFields :
          r[name] = Nil \/ r[name][1] >= 0

SatisfiesValidate(set) ==
    /\ NoNegativeLimits(set)
    /\ set.MeekRateLimiterHistorySize > 0 => set.MeekRateLimiterThresholdSeconds > 0
    /\ \A i \in 1..Len(set.FilteredRules) :
          set.FilteredRules[i].Filter.HandshakeParameters = Nil
          \/ \A p \in set.FilteredRules[i].Filter.HandshakeParameters[1] :
                p.name \in baseRequestParams
    /\ \A r \in RulesOf(set) :
          r["AllowSubnets"] = Nil
          \/ \A i \in 1..Len(r["AllowSubnets"][1]) : ParseCIDR(r["AllowSubnets"][1][i])

ReloadFailed ==
    /\ trafficRules.op = "Reload"
    /\ ~trafficRules.fileContent.parses \/ ~SatisfiesValidate(trafficRules.fileContent.newSet)

(* C35: a reload whose file does not parse or does not satisfy Validate    *)
(* returns an error and leaves the active set as it was, and the active    *)
(* set satisfies Validate from construction on, after every reload.        *)
C35_FailedReloadKeepsSet ==
    /\ [](SatisfiesValidate(trafficRules.set))
    /\ [][ReloadFailed' => trafficRules'.err # "" /\ trafficRules'.set = trafficRules.set]_vars

(* A reload of a file that parses and that Validate rejects has returned   *)
(* its error, a reload of a file that does not parse has, and the active   *)
(* set, with filtered rules and a meek rate limiter, is not the file's.    *)
C35_Witness ==
    /\ ReloadFailed
    /\ trafficRules.fileContent.parses
    /\ trafficRules.err = "validate"
    /\ trafficRules.set # trafficRules.fileContent.newSet
    /\ Len(trafficRules.set.FilteredRules) > 0
    /\ trafficRules.set.MeekRateLimiterHistorySize > 0

-----------------------------------------------------------------------------
(* C33.  The steps of the stats functions, told from the open, the reset   *)
(* and the close by the fields those leave alone.                          *)
StatsCallStep(op) ==
    /\ stats'.op = op
    /\ stats'.activeDatastoreDB = stats.activeDatastoreDB
    /\ stats'.pc = stats.pc
    /\ stats' # stats

TakeOutStep == StatsCallStep("TakeOutUnreportedPersistentStats")

OpenResetStep == stats.pc = "reset" /\ stats'.pc = "idle"

StateOf(buckets, statType, key) ==
    IF key \in DOMAIN buckets[statType] THEN buckets[statType][key] ELSE "deleted"

(* A take-out returns unreported records only and leaves each of them      *)
(* reporting.                                                              *)
TakesUnreportedOnly ==
    TakeOutStep /\ stats'.err = "" =>
        \A statType \in StatTypes : \A j \in 1..Len(stats'.taken[statType]) :
            /\ StateOf(stats.buckets, statType, stats'.taken[statType][j])
                   = persistentStatStateUnreported
            /\ StateOf(stats'.buckets, statType, stats'.taken[statType][j])
                   = persistentStatStateReporting

(* A reporting record stays reporting, except that the functions in        *)
(* restoring put it back, Clear deletes it and the reset of an open        *)
(* reverts it.                                                             *)
ReportingUntil(restoring) ==
    \A statType \in StatTypes : \A key \in DOMAIN stats.buckets[statType] :
        stats.buckets[statType][key] = persistentStatStateReporting =>
            \/ StateOf(stats'.buckets, statType, key) = persistentStatStateReporting
            \/ /\ \E op \in restoring : StatsCallStep(op)
               /\ StateOf(stats'.buckets, statType, key) = persistentStatStateUnreported
            \/ /\ StatsCallStep("ClearReportedPersistentStats")
               /\ StateOf(stats'.buckets, statType, key) = "deleted"
            \/ /\ OpenResetStep
               /\ StateOf(stats'.buckets, statType, key) = persistentStatStateUnreported

(* C33 as stated: a take-out returns only unreported records and leaves    *)
(* them reporting, and a reporting record is not unreported again, hence   *)
(* not returned by a later take-out, until PutBack restores it or the      *)
(* store is reopened.                                                      *)
C33_Lifecycle ==
    [][TakesUnreportedOnly
       /\ ReportingUntil({"PutBackUnreportedPersistentStats"})]_vars

(* What holds instead: StorePersistentStat of the same stat also makes a   *)
(* reporting record unreported.                                            *)
LifecycleUnlessStoredAgain ==
    [][TakesUnreportedOnly
       /\ ReportingUntil({"PutBackUnreportedPersistentStats", "StorePersistentStat"})]_vars

-----------------------------------------------------------------------------
(* C34.  The bytes of a list of records, and the records a take-out        *)
(* returned in the order it collected them.                                *)
RECURSIVE BytesOf(_)
BytesOf(keys) ==
    IF keys = <<>> THEN 0 ELSE StatBytes(Head(keys)) + BytesOf(Tail(keys))

Collected(taken) == taken[persistentStatTypes[1]] \o taken[persistentStatTypes[2]]

AnyUnreported(buckets) ==
    \E statType \in StatTypes : \E key \in DOMAIN buckets[statType] :
        buckets[statType][key] = persistentStatStateUnreported

(* C34 as stated: a take-out returns a record whenever one is unreported,  *)
(* and it collects no record once the records collected before it, of any  *)
(* stat type, have reached maxSendBytes.                                   *)
C34_StopsAtLimit ==
    [][TakeOutStep /\ stats'.err = "" =>
          /\ AnyUnreported(stats.buckets) => Len(Collected(stats'.taken)) >= 1
          /\ \A n \in 1..(Len(Collected(stats'.taken)) - 1) :
                BytesOf(SubSeq(Collected(stats'.taken), 1, n)) < stats'.maxSendBytes]_vars

(* What holds instead: the limit ends the collection within a stat type    *)
(* only, and every stat type after it still gives its first unreported     *)
(* record.                                                                 *)
StopsAtLimitWithinType ==
    [][TakeOutStep /\ stats'.err = "" =>
          /\ AnyUnreported(stats.buckets) => Len(Collected(stats'.taken)) >= 1
          /\ \A n \in 1..(Len(stats'.taken[persistentStatTypes[1]]) - 1) :
                BytesOf(SubSeq(stats'.taken[persistentStatTypes[1]], 1, n))
                    < stats'.maxSendBytes
          /\ \A n \in 1..(Len(stats'.taken[persistentStatTypes[2]]) - 1) :
                BytesOf(stats'.taken[persistentStatTypes[1]])
                  + BytesOf(SubSeq(stats'.taken[persistentStatTypes[2]], 1, n))
                    < stats'.maxSendBytes
          /\ \A statType \in StatTypes :
                AnyUnreported([t \in StatTypes |-> stats.buckets[statType]])
                    => Len(stats'.taken[statType]) >= 1]_vars

-----------------------------------------------------------------------------
(* C36.  The call waits at its select, where it can take the context's     *)
(* case, or at the receive that follows the cancellation.                  *)
DialWaits == dial.pc \in {"select", "join"}

(* C36: the call waits on resultChannel alone only after it has taken the  *)
(* context's case and closed the raw connection, and once the context is   *)
(* done the call does not wait forever.                                    *)
C36_ReturnsAfterCancel ==
    /\ [](dial.pc = "join" => dial.ctxDone /\ dial.rawConn = "closed")
    /\ (dial.ctxDone ~> ~DialWaits)

(* The context was cancelled while the handshake was pending; the call has *)
(* returned the cancellation error and the goroutine has ended.            *)
C36_Witness ==
    /\ dial.pc = "returned"
    /\ dial.cancelledWhileRunning
    /\ dial.err = "context canceled"
    /\ dial.rawConn = "closed"
    /\ dial.goroutine = "done"

-----------------------------------------------------------------------------
(* C37.  What GetDialParameters returns for a pair on a given bucket, and  *)
(* the record last set for a pair (<<>> when there is none).               *)
WouldGet(bucket, ip, networkID) ==
    IF BucketGet(bucket, makeDialParametersKey(ip, networkID)).kind = "nil" THEN <<>>
    ELSE <<UnmarshalDialParameters(
               BucketGet(bucket, makeDialParametersKey(ip, networkID))).dialParams>>

LastSetFor(history, ip, networkID) ==
    IF <<ip, networkID>> \in DOMAIN history THEN <<history[<<ip, networkID>>]>> ELSE <<>>

UntouchedKeeps(ip, networkID) ==
    LastSetFor(lastSet', ip, networkID) = LastSetFor(lastSet, ip, networkID)
        => WouldGet(dialParameters', ip, networkID) = WouldGet(dialParameters, ip, networkID)

(* C37 as stated: a SetDialParameters or DeleteDialParameters for one pair *)
(* leaves what GetDialParameters returns for every other pair as it was.   *)
C37_PairsIndependent ==
    [][\A ip \in DialParameterIPs, networkID \in DialParameterNetworkIDs :
           UntouchedKeeps(ip, networkID)]_vars

(* What holds instead: the pairs whose key no other pair shares are        *)
(* independent of every other pair.                                        *)
OwnKeyPairsIndependent ==
    [][\A ip \in DialParameterIPs, networkID \in DialParameterNetworkIDs :
           KeyIsOwn(ip, networkID) => UntouchedKeeps(ip, networkID)]_vars

-----------------------------------------------------------------------------
(* C38.  The reset of an open reverts a record that a take-out returned    *)
(* after that open had published the store: the take-out is the last call  *)
(* since the publication, which clears op.                                 *)
ResetRevertsTaken ==
    /\ OpenResetStep
    /\ stats.op = "TakeOutUnreportedPersistentStats" /\ stats.err = ""
    /\ \E statType \in StatTypes : \E j \in 1..Len(stats.taken[statType]) :
          /\ StateOf(stats.buckets, statType, stats.taken[statType][j])
                 = persistentStatStateReporting
          /\ StateOf(stats'.buckets, statType, stats.taken[statType][j])
                 = persistentStatStateUnreported

(* C38 as stated: no record that a take-out returned after OpenDataStore   *)
(* published the store is reverted by the reset of that open.              *)
C38_ResetBeforeOthers == [][~ResetRevertsTaken]_vars

(* What holds instead: a reporting record becomes unreported, other than   *)
(* by PutBack or by a Store of the same stat, only in the reset step of an *)
(* open, which may come after take-outs on the published store.            *)
ResetOnlyWithinOpen ==
    [][(\E statType \in StatTypes : \E key \in DOMAIN stats.buckets[statType] :
           /\ stats.buckets[statType][key] = persistentStatStateReporting
           /\ StateOf(stats'.buckets, statType, key) = persistentStatStateUnreported
           /\ ~StatsCallStep("PutBackUnreportedPersistentStats")
           /\ ~StatsCallStep("StorePersistentStat"))
        => stats.pc = "reset"]_vars

-----------------------------------------------------------------------------
(* C39.  The step in which CloseDataStore closes the database and returns, *)
(* and the steps in which a goroutine enters activeDatastoreDB.view or     *)
(* activeDatastoreDB.update.                                               *)
ClosesDatabase(g) == mutex.pc[g] = "close" /\ mutex'.pc[g] = "idle"

EntersTransaction(g) == ~InTransaction(g) /\ InTransaction(g)'

(* C39: CloseDataStore closes the database in a step in which no goroutine *)
(* is inside a view or an update; a goroutine enters a view or an update   *)
(* only while the database is open, and after a step taken with the        *)
(* database closed no goroutine is inside one.                             *)
C39_NoTransactionOverlapsClose ==
    [][/\ \A g \in Goroutines :
             ClosesDatabase(g) =>
                 \A h \in Goroutines : ~InTransaction(h) /\ ~InTransaction(h)'
       /\ \A g \in Goroutines :
             EntersTransaction(g) => stats.activeDatastoreDB /\ stats'.activeDatastoreDB
       /\ ~stats.activeDatastoreDB => \A g \in Goroutines : ~InTransaction(g)']_vars

(* The database is closed after a write transaction of one goroutine       *)
(* failed in it, a later call of another goroutine was refused with        *)
(* "database not open", and a third goroutine is about to open it again.   *)
C39_Witness ==
    /\ ~stats.activeDatastoreDB
    /\ \E g, h, k \in Goroutines :
          /\ mutex.err[g] = "database not open" /\ mutex.pc[g] = "idle"
          /\ mutex.err[h] = "update failed" /\ mutex.pc[h] = "idle"
          /\ mutex.pc[k] = "open"


-----------------------------------------------------------------------------
(* Properties of the cursor of a ServerEntryIterator, under SpecDataStore. *)

(* The cursor is within the list.                                          *)
CursorInRange ==
    /\ 0 <= iterator.serverEntryIndex
    /\ iterator.serverEntryIndex <= Len(iterator.serverEntryIDs)

(* The step is a reset: Reset() or a constructor, which calls reset.       *)
IsResetStep == ret'.op \in Constructors \cup {"Reset"}

(* The step is a call of Next.                                             *)
AnyNextStep ==
    /\ iterator.kind # "none"
    /\ ret'.op = "Next"
    /\ stats' = stats

(* Next has nothing left to return: the cursor is at the end of the list   *)
(* or, in the target case, the entry was handed out.                       *)
AtEnd ==
    /\ iterator.kind # "none"
    /\ IF iterator.kind = "target"
       THEN ~iterator.hasNextTarget
       ELSE iterator.serverEntryIndex >= Len(iterator.serverEntryIDs)

(* The last call was a Next that reported end, and the last call closed    *)
(* the iterator after an error.                                            *)
ReportedEnd == ret.op = "Next" /\ ~ret.err /\ ret.entry.kind = "nil"

ClosedAfterError == ret.op \in {"Next", "Reset"} /\ ret.err

(* Once at the end the iterator stays there until a reset, and Next at the *)
(* end reports end.                                                        *)
EndIsSticky ==
    /\ (AtEnd /\ ~IsResetStep) => AtEnd'
    /\ (AtEnd /\ AnyNextStep) => ReportedEnd'

(* C40 as stated: the cursor is within the list, it does not decrease in a *)
(* step that is not a reset, and after Next reported end or an error       *)
(* closed the iterator every Next reports end until a reset.               *)
C40_Original ==
    /\ [](CursorInRange /\ ((ReportedEnd \/ ClosedAfterError) => AtEnd))
    /\ [][/\ ~IsResetStep => iterator'.serverEntryIndex >= iterator.serverEntryIndex
          /\ EndIsSticky]_vars

(* The deferred function of Next (lines 602-606) closes the iterator: Next *)
(* returns an error, or it reports end after the record of the last id     *)
(* did not parse, and list and cursor are emptied.                         *)
NextClosesIterator ==
    /\ StoreNextStep
    /\ iterator' = Close(iterator)
    /\ \/ ret'.err
       \/ /\ ReportedEnd'
          /\ iterator.serverEntryIDs # <<>>
          /\ ~UnmarshalOK(BucketGet(serverEntries,
                 At(iterator.serverEntryIDs, Len(iterator.serverEntryIDs) - 1)))

(* C40, amended: the cursor is within the list; in a step that is not a    *)
(* reset it does not decrease unless Next closes the iterator; after Next  *)
(* reported end or an error closed the iterator every Next reports end     *)
(* until a reset.                                                          *)
C40_CursorUnlessClosed ==
    /\ [](CursorInRange /\ ((ReportedEnd \/ ClosedAfterError) => AtEnd))
    /\ [][/\ ~IsResetStep =>
                \/ iterator'.serverEntryIndex >= iterator.serverEntryIndex
                \/ NextClosesIterator
          /\ EndIsSticky]_vars

(* Next reported end on an iterator that had returned an entry in this     *)
(* cycle, and left it closed: the cursor went back to 0.                   *)
C40_Witness ==
    /\ iterator.kind = "store"
    /\ ReportedEnd
    /\ Len(yielded) > 0
    /\ iterator.serverEntryIDs = <<>>
    /\ iterator.serverEntryIndex = 0

=============================================================================
